---- MODULE Spec2Model ----
(***************************************************************************)
(* Frame handoff between the game (simulation) thread and the render       *)
(* thread of src/Sly2Decomp/game/opengl.cpp: gl_send_chain, gl_sync_path,  *)
(* gl_vsync on the game thread, OpenGLDisplay::render and                  *)
(* render_game_frame on the render thread (driven by Graphics::Loop).      *)
(*                                                                         *)
(* Each thread is a program counter over the statements of its functions.  *)
(* The two std::mutex objects are modelled by their owner, the two         *)
(* condition variables by the blocked/woken positions of their waiters.    *)
(* A condition-variable wait with predicate is the loop                    *)
(*     while (!pred()) wait(lock);                                         *)
(* so the predicate check and the blocking are separate steps wherever the *)
(* predicate reads state that is written without the waiter's mutex.       *)
(***************************************************************************)
EXTENDS Naturals, Integers, FiniteSets, Sequences, TLC

\* Bound on the number of presented frames (render() iterations).
MaxFrameIdx == 2
\* Largest chain offset passed to gl_send_chain.
MaxOffset == 1

\* The chain buffers the game passes to gl_send_chain.
DataValues == {"bufA", "bufB"}
Offsets == 0..MaxOffset
NoData == "null"

Threads == {"sim", "render"}
Free == "free"

\* Largest configured game resolution / screenshot dimension.
MaxRes == 2
\* The resolution render() falls back to.
DefaultGameResW == 640
DefaultGameResH == 480
\* Values the int settings (game resolution, screenshot size) can hold.
ConfiguredRes == 0..MaxRes
\* Sizes glfwGetFramebufferSize reports for a visible window.
WindowSizes == {1, 2}
\* Sample counts requested by the settings, and the GL_MAX_SAMPLES limits.
SampleCounts == {1, 2, 4}
MsaaMaxValues == {2, 4}

\* GraphicsDisplayMode, and the value -1 that m_fullscreen_mode starts with.
DisplayModes == {"Windowed", "Fullscreen", "Borderless"}
InvalidMode == "Invalid"
\* Variant of InitialFullscreenMode: the current mode starts as Windowed.
InitialFullscreenModeWindowed == "Windowed"
\* The member initialiser of m_fullscreen_mode.
InitialFullscreenMode == InvalidMode
\* The monitors of g_glfw_state and the screen indices set_fullscreen is given.
Monitors == {0, 1}
TargetScreens == {0, 1}
\* Video modes glfwGetVideoMode can report, and the zero-initialised one.
VideoModes ==
  { [width |-> 4, height |-> 4, refreshRate |-> 1],
    [width |-> 4, height |-> 4, refreshRate |-> 2],
    [width |-> 6, height |-> 4, refreshRate |-> 1] }
ZeroVideoMode == [width |-> 0, height |-> 0, refreshRate |-> 0]
\* Window positions and sizes reported by GLFW and passed to set_size.
WindowPositions == {<<0, 0>>, <<1, 2>>}
WindowedSizes == {<<2, 2>>, <<4, 2>>}
\* The member initialisers of the remembered windowed geometry.
DefaultWindowedWidth == 640
DefaultWindowedHeight == 480
\* Largest number of displays in g_displays.
MaxDisplays == 3
\* Largest width and height of a screenshot.
MaxShotWidth == 2
MaxShotHeight == 3
\* Displays (shared_ptr<GraphicsDisplay> values); NullDisplay is the null pointer.
Displays == 1..MaxDisplays
NullDisplay == 0
\* GraphicsPipeline values given to SetRenderer.
Pipelines == {"Invalid", "OpenGL", "Unknown"}
\* No entry call has been made yet.
NoEntry == [fn |-> "none", layer |-> "none", had_renderer |-> FALSE, had_data |-> FALSE, ret |-> 0, entered |-> FALSE]
\* Number of keys in g_key_status and g_buffered_key_status (glfw::NUM_KEYS).
NUM_KEYS == 2
Keys == 0..(NUM_KEYS - 1)
\* Key arguments of the key functions: the valid keys, GLFW_KEY_UNKNOWN (-1) and
\* NUM_KEYS.
KeyInputs == -1..NUM_KEYS
\* Memory layouts that matter for a key: whether g_buffered_key_status directly
\* follows g_key_status matters only for a key outside the arrays.
Layouts(key) == IF key \in Keys THEN {FALSE} ELSE BOOLEAN
\* GLFW_KEY_ESCAPE, as a key of Keys.
KeyEscape == 0
\* Peripherals::CONTROLLER_COUNT and Button::Max.
CONTROLLER_COUNT == 2
ButtonMax == 16
Pads == 0..(CONTROLLER_COUNT - 1)
Buttons == 0..(ButtonMax - 1)
\* No OnKeyPress call has been made by the last step.
NoPress == [key |-> -1, imgui |-> FALSE]
\* A cell of a mapping table.
Cell(table, pad, button) == [table |-> table, pad |-> pad, button |-> button]
\* No get_mapped_button call has been made yet.
NoMappedButton == [called |-> FALSE, pad |-> 0, button |-> 0, bound |-> FALSE, ret |-> Cell("none", 0, 0), reads |-> {}]
\* The value -1 returned by get_mapped_button, which is no cell.
InvalidParameters == Cell("invalid", -1, -1)
\* A u32 RGBA pixel as read by glReadPixels, split into its top byte and its
\* lower 24 bits (the value is top * 2^24 + low).
PixelValues == {[top |-> 0, low |-> 1], [top |-> 128, low |-> 2]}
\* The top byte of the mask 0xff000000.
AlphaMaskTop == 255
\* History values: no glfwSetWindowMonitor call in the last step, no round trip.
NoGeometry == [xpos |-> -1, ypos |-> -1, width |-> 0, height |-> 0]
NoRoundtrip == [stage |-> "none", origin |-> NoGeometry]

\* A default-constructed Fbo: not valid.
DefaultFbo ==
  [valid |-> FALSE, is_window |-> FALSE, width |-> 0, height |-> 0,
   multisample_count |-> 0]
\* m_fbo_state of a new OpenGLRenderer: no render_fbo selected.
NoFbo == "null"
InitialFboState ==
  [window |-> DefaultFbo, render_buffer |-> DefaultFbo,
   resolve_buffer |-> DefaultFbo, render_fbo |-> NoFbo]
\* Value of settings before the first setup_frame call.
NoSettings ==
  [game_res_w |-> 0, game_res_h |-> 0, msaa_samples |-> 0,
   window_framebuffer_width |-> 0, window_framebuffer_height |-> 0,
   save_screenshot |-> FALSE]

VARIABLES
  sync_mutex,               \* owner of GraphicsData::sync_mutex
  dma_mutex,                \* owner of GraphicsData::dma_mutex
  frame_idx,                \* GraphicsData::frame_idx
  frame_idx_of_input_data,  \* GraphicsData::frame_idx_of_input_data
  has_data_to_render,       \* GraphicsData::has_data_to_render
  last_input_data,          \* dma_copier's last input data pointer
  last_input_offset,        \* dma_copier's last input offset
  MasterExit,               \* RuntimeExitStatus MasterExit
  window_should_close,      \* glfwWindowShouldClose(m_window)
  rpc,                      \* render thread: position in Loop/render/render_game_frame
  got_chain,                \* render_game_frame's local got_chain
  spc,                      \* game thread: position in gl_vsync/gl_sync_path/gl_send_chain
  arg_data,                 \* gl_send_chain's parameter data
  arg_offset,               \* gl_send_chain's parameter offset
  init_frame,               \* gl_vsync's local init_frame
  sim_ret,                  \* return value of the game thread's running call
  \* history variables (not program state)
  slot_read,                \* the pending chain has been read by ogl_renderer.render
  consumed,                 \* number of published chains taken off the slot
  presented,                \* number of glfwSwapBuffers calls
  found_pending,            \* the running gl_sync_path found has_data_to_render true
  cleared_since,            \* render_game_frame cleared the flag since gl_sync_path entry
  synced,                   \* gl_sync_path has returned since the last gl_send_chain
  \* OpenGLRenderer
  m_fbo_state,              \* OpenGLRenderer::m_fbo_state (resources and render_fbo)
  settings,                 \* the RenderOptions of the last setup_frame call
  assert_failed,            \* setup_frame's ASSERT_MSG on the game resolution failed
  setup_log,                \* history: what the last setup_frame call did
  \* OpenGLDisplay
  display_created,          \* the OpenGLDisplay constructor has run
  m_fullscreen_mode,        \* GraphicsDisplay::m_fullscreen_mode (current mode)
  m_fullscreen_target_mode, \* GraphicsDisplay::m_fullscreen_target_mode
  m_last_fullscreen_mode,   \* GraphicsDisplay::m_last_fullscreen_mode
  m_fullscreen_screen,      \* GraphicsDisplay::m_fullscreen_screen
  m_fullscreen_target_screen, \* GraphicsDisplay::m_fullscreen_target_screen
  m_last_windowed,          \* m_last_windowed_xpos, _ypos, _width, _height
  m_minimized,              \* OpenGLDisplay::m_minimized
  m_last_video_mode,        \* OpenGLDisplay::m_last_video_mode
  monitor_vmode,            \* glfwGetVideoMode of each monitor
  flushed,                  \* history: the last display step ran fullscreen_flush
  updated,                  \* history: the last display step was render()'s fullscreen block
  applied,                  \* history: geometry the last step gave glfwSetWindowMonitor
  roundtrip,                \* history: progress of a Windowed-Fullscreen-Windowed round trip
  last_call,                \* history: the display function the last step ran
  \* OpenGLRenderer::finish_screenshot
  shot_pc,                  \* position in finish_screenshot
  shot_width,               \* finish_screenshot's parameter width
  shot_height,              \* finish_screenshot's parameter height
  buffer,                   \* finish_screenshot's local buffer
  shot_h,                   \* the flip loop's counter h
  read_back,                \* history: the pixels glReadPixels delivered
  png,                      \* history: the pixels given to write_rgba_png
  \* Graphics, Display
  renderer,                 \* g_global_settings.renderer ("none" is the null pointer)
  graphics_data,            \* g_graphics_data is not null
  gl_inited,                \* opengl.cpp's static gl_inited
  g_displays,               \* Display::g_displays
  has_window,               \* the displays whose get_window() is not null
  m_main,                   \* the displays constructed with is_main
  fault,                    \* the process crashed or is stuck in a loop
  deref_null,               \* history: a null pointer has been dereferenced
  last_entry,               \* history: the last Graphics::/gl_ entry call and its result
  \* Peripherals
  g_key_status,             \* Peripherals::g_key_status
  g_buffered_key_status,    \* Peripherals::g_buffered_key_status
  input_mode,               \* Peripherals::input_mode
  input_mode_index,         \* Peripherals::input_mode_index
  input_mode_pad,           \* Peripherals::input_mode_pad
  gamepad_idx,              \* g_gamepads.gamepad_idx
  key_fault,                \* an ASSERT of the key functions failed
  key_call,                 \* history: the key function the last step ran, or "other"
  press,                    \* history: the key and ImGui state of the last step's OnKeyPress
  last_map,                 \* history: the mapping table cells the last step wrote
  mapped_button             \* history: the last get_mapped_button call and its result

vars == <<sync_mutex, dma_mutex, frame_idx, frame_idx_of_input_data,
          has_data_to_render, last_input_data, last_input_offset, MasterExit,
          window_should_close, rpc, got_chain, spc, arg_data, arg_offset,
          init_frame, sim_ret, slot_read, consumed, presented, found_pending,
          cleared_since, synced, m_fbo_state, settings, assert_failed, setup_log,
          display_created, m_fullscreen_mode, m_fullscreen_target_mode,
          m_last_fullscreen_mode, m_fullscreen_screen, m_fullscreen_target_screen,
          m_last_windowed, m_minimized, m_last_video_mode, monitor_vmode, flushed,
          updated, applied, roundtrip, last_call, shot_pc, shot_width, shot_height, buffer,
          shot_h, read_back, png, renderer, graphics_data, gl_inited, g_displays,
          has_window, m_main, fault, deref_null, last_entry, g_key_status,
          g_buffered_key_status, input_mode, input_mode_index, input_mode_pad,
          gamepad_idx, key_fault, key_call, press, last_map,
          mapped_button>>

Init ==
  /\ sync_mutex = Free
  /\ dma_mutex = Free
  /\ frame_idx = 0
  /\ frame_idx_of_input_data = 0
  /\ has_data_to_render = FALSE
  /\ last_input_data = NoData
  /\ last_input_offset = 0
  /\ MasterExit = "RUNNING"
  /\ window_should_close = FALSE
  /\ rpc = "loop"
  /\ got_chain = FALSE
  /\ spc = "idle"
  /\ arg_data = NoData
  /\ arg_offset = 0
  /\ init_frame = 0
  /\ sim_ret = 0
  /\ slot_read = FALSE
  /\ consumed = 0
  /\ presented = 0
  /\ found_pending = FALSE
  /\ cleared_since = FALSE
  /\ synced = FALSE
  /\ m_fbo_state = InitialFboState
  /\ settings = NoSettings
  /\ assert_failed = FALSE
  /\ setup_log = [resolved |-> FALSE, made |-> 0, destroyed |-> 0, had |-> 0,
                  window_resized |-> FALSE, matched |-> FALSE, offscreen |-> FALSE]
  /\ display_created = FALSE
  /\ m_fullscreen_mode = InitialFullscreenMode
  /\ m_fullscreen_target_mode = "Windowed"
  /\ m_last_fullscreen_mode = "Windowed"
  /\ m_fullscreen_screen = -1
  /\ m_fullscreen_target_screen = -1
  /\ m_last_windowed = [xpos |-> 0, ypos |-> 0, width |-> DefaultWindowedWidth,
                        height |-> DefaultWindowedHeight]
  /\ m_minimized = FALSE
  /\ m_last_video_mode = ZeroVideoMode
  /\ monitor_vmode = [i \in Monitors |-> [width |-> 4, height |-> 4, refreshRate |-> 1]]
  /\ flushed = FALSE
  /\ updated = FALSE
  /\ applied = NoGeometry
  /\ roundtrip = NoRoundtrip
  /\ last_call = "other"
  /\ shot_pc = "idle"
  /\ shot_width = 0
  /\ shot_height = 0
  /\ buffer = <<>>
  /\ shot_h = 0
  /\ read_back = <<>>
  /\ png = <<>>
  /\ renderer = "none"
  /\ graphics_data = FALSE
  /\ gl_inited = FALSE
  /\ g_displays = <<>>
  /\ has_window = {}
  /\ m_main = {}
  /\ fault = "none"
  /\ deref_null = "none"
  /\ last_entry = NoEntry
  /\ g_key_status = [k \in Keys |-> FALSE]
  /\ g_buffered_key_status = [k \in Keys |-> FALSE]
  /\ input_mode = "Disabled"
  /\ input_mode_index = 0
  /\ input_mode_pad = 0
  /\ gamepad_idx = [pad \in Pads |-> -1]
  /\ key_fault = "none"
  /\ key_call = "none"
  /\ press = NoPress
  /\ last_map = <<>>
  /\ mapped_button = NoMappedButton

(***************************************************************************)
(* Condition variables.  sync_cv is waited on by the game thread only      *)
(* (gl_vsync, gl_sync_path), dma_cv by the render thread only.             *)
(***************************************************************************)
\* Variant of NotifySyncCv: only a gl_vsync waiter is woken.
NotifySyncCvVsyncOnly(p) == IF p = "vs_blocked" THEN "vs_woken" ELSE p

\* sync_cv.notify_all(): the game thread's position after the notification.
NotifySyncCv(p) ==
  IF p = "vs_blocked" THEN "vs_woken"
  ELSE IF p = "sp_blocked" THEN "sp_woken"
  ELSE p

\* dma_cv.notify_all(): the render thread's position after the notification.
NotifyDmaCv(p) == IF p = "rg_blocked" THEN "rg_woken" ELSE p

(***************************************************************************)
(* Game thread: gl_vsync                                                   *)
(***************************************************************************)
\* Variant of VsyncPredicate: the exit status is not looked at.
VsyncPredicateNoExit == frame_idx > init_frame

\* Variant of VsyncPredicate: the frame comparison is off by one.
VsyncPredicateOffByOne == MasterExit # "RUNNING" \/ frame_idx >= init_frame

\* The wait predicate of gl_vsync.
VsyncPredicate == MasterExit # "RUNNING" \/ frame_idx > init_frame

\* Entry: lock sync_mutex and read the baseline frame_idx_of_input_data.
VsyncEnter ==
  /\ spc = "idle"
  /\ sync_mutex = Free
  /\ sync_mutex' = "sim"
  /\ init_frame' = frame_idx_of_input_data
  /\ spc' = "vs_check"
  /\ UNCHANGED <<dma_mutex, frame_idx, frame_idx_of_input_data, has_data_to_render,
                 last_input_data, last_input_offset, MasterExit, window_should_close,
                 rpc, got_chain, arg_data, arg_offset, sim_ret, slot_read, consumed,
                 presented, found_pending, cleared_since, synced, m_fbo_state,
                 settings, assert_failed, setup_log, display_created,
                 m_fullscreen_mode, m_fullscreen_target_mode, m_last_fullscreen_mode,
                 m_fullscreen_screen, m_fullscreen_target_screen, m_last_windowed,
                 m_minimized, m_last_video_mode, monitor_vmode, flushed, updated,
                 applied, roundtrip, last_call, shot_pc, shot_width, shot_height,
                 buffer, shot_h, read_back, png, renderer, graphics_data, gl_inited,
                 g_displays, has_window, m_main, fault, deref_null, last_entry,
                 g_key_status, g_buffered_key_status, input_mode, input_mode_index,
                 input_mode_pad, gamepad_idx, key_fault, key_call, press, last_map,
                 mapped_button>>

\* sync_cv.wait(lock, pred): predicate true -> the return value is computed under
\* the lock; predicate false -> release the lock and block on sync_cv.
VsyncWait ==
  /\ spc = "vs_check"
  /\ sync_mutex = "sim"
  /\ IF VsyncPredicate
       THEN /\ sim_ret' = frame_idx % 2
            /\ spc' = "vs_ret"
            /\ UNCHANGED sync_mutex
       ELSE /\ sync_mutex' = Free
            /\ spc' = "vs_blocked"
            /\ UNCHANGED sim_ret
  /\ UNCHANGED <<dma_mutex, frame_idx, frame_idx_of_input_data, has_data_to_render,
                 last_input_data, last_input_offset, MasterExit, window_should_close,
                 rpc, got_chain, arg_data, arg_offset, init_frame, slot_read, consumed,
                 presented, found_pending, cleared_since, synced, m_fbo_state,
                 settings, assert_failed, setup_log, display_created,
                 m_fullscreen_mode, m_fullscreen_target_mode, m_last_fullscreen_mode,
                 m_fullscreen_screen, m_fullscreen_target_screen, m_last_windowed,
                 m_minimized, m_last_video_mode, monitor_vmode, flushed, updated,
                 applied, roundtrip, last_call, shot_pc, shot_width, shot_height,
                 buffer, shot_h, read_back, png, renderer, graphics_data, gl_inited,
                 g_displays, has_window, m_main, fault, deref_null, last_entry,
                 g_key_status, g_buffered_key_status, input_mode, input_mode_index,
                 input_mode_pad, gamepad_idx, key_fault, key_call, press, last_map,
                 mapped_button>>

\* A woken waiter re-acquires sync_mutex and re-checks the predicate.
VsyncWoken ==
  /\ spc = "vs_woken"
  /\ sync_mutex = Free
  /\ sync_mutex' = "sim"
  /\ spc' = "vs_check"
  /\ UNCHANGED <<dma_mutex, frame_idx, frame_idx_of_input_data, has_data_to_render,
                 last_input_data, last_input_offset, MasterExit, window_should_close,
                 rpc, got_chain, arg_data, arg_offset, init_frame, sim_ret, slot_read,
                 consumed, presented, found_pending, cleared_since, synced,
                 m_fbo_state, settings, assert_failed, setup_log, display_created,
                 m_fullscreen_mode, m_fullscreen_target_mode, m_last_fullscreen_mode,
                 m_fullscreen_screen, m_fullscreen_target_screen, m_last_windowed,
                 m_minimized, m_last_video_mode, monitor_vmode, flushed, updated,
                 applied, roundtrip, last_call, shot_pc, shot_width, shot_height,
                 buffer, shot_h, read_back, png, renderer, graphics_data, gl_inited,
                 g_displays, has_window, m_main, fault, deref_null, last_entry,
                 g_key_status, g_buffered_key_status, input_mode, input_mode_index,
                 input_mode_pad, gamepad_idx, key_fault, key_call, press, last_map,
                 mapped_button>>

\* return g_graphics_data->frame_idx & 1; the lock is released on return.
VsyncReturn ==
  /\ spc = "vs_ret"
  /\ sync_mutex = "sim"
  /\ sync_mutex' = Free
  /\ spc' = "idle"
  /\ init_frame' = 0
  /\ sim_ret' = 0
  /\ UNCHANGED <<dma_mutex, frame_idx, frame_idx_of_input_data, has_data_to_render,
                 last_input_data, last_input_offset, MasterExit, window_should_close,
                 rpc, got_chain, arg_data, arg_offset, slot_read, consumed, presented,
                 found_pending, cleared_since, synced, m_fbo_state, settings,
                 assert_failed, setup_log, display_created, m_fullscreen_mode,
                 m_fullscreen_target_mode, m_last_fullscreen_mode, m_fullscreen_screen,
                 m_fullscreen_target_screen, m_last_windowed, m_minimized,
                 m_last_video_mode, monitor_vmode, flushed, updated, applied,
                 roundtrip, last_call, shot_pc, shot_width, shot_height, buffer,
                 shot_h, read_back, png, renderer, graphics_data, gl_inited,
                 g_displays, has_window, m_main, fault, deref_null, last_entry,
                 g_key_status, g_buffered_key_status, input_mode, input_mode_index,
                 input_mode_pad, gamepad_idx, key_fault, key_call, press, last_map,
                 mapped_button>>

(***************************************************************************)
(* Game thread: gl_sync_path                                               *)
(***************************************************************************)
\* Variant of SyncPathPredicate: the wait does not look at the flag.
SyncPathPredicateAlways == TRUE

\* The wait predicate of gl_sync_path.
SyncPathPredicate == ~has_data_to_render

\* Entry: lock sync_mutex (not dma_mutex).
SyncPathEnter ==
  /\ spc = "idle"
  /\ sync_mutex = Free
  /\ sync_mutex' = "sim"
  /\ spc' = "sp_first"
  /\ UNCHANGED <<dma_mutex, frame_idx, frame_idx_of_input_data, has_data_to_render,
                 last_input_data, last_input_offset, MasterExit, window_should_close,
                 rpc, got_chain, arg_data, arg_offset, init_frame, sim_ret, slot_read,
                 consumed, presented, found_pending, cleared_since, synced,
                 m_fbo_state, settings, assert_failed, setup_log, display_created,
                 m_fullscreen_mode, m_fullscreen_target_mode, m_last_fullscreen_mode,
                 m_fullscreen_screen, m_fullscreen_target_screen, m_last_windowed,
                 m_minimized, m_last_video_mode, monitor_vmode, flushed, updated,
                 applied, roundtrip, last_call, shot_pc, shot_width, shot_height,
                 buffer, shot_h, read_back, png, renderer, graphics_data, gl_inited,
                 g_displays, has_window, m_main, fault, deref_null, last_entry,
                 g_key_status, g_buffered_key_status, input_mode, input_mode_index,
                 input_mode_pad, gamepad_idx, key_fault, key_call, press, last_map,
                 mapped_button>>

\* if (!has_data_to_render) return 0;
SyncPathFirstCheck ==
  /\ spc = "sp_first"
  /\ sync_mutex = "sim"
  /\ IF ~has_data_to_render
       THEN /\ spc' = "sp_ret"
            /\ UNCHANGED <<found_pending, cleared_since>>
       ELSE /\ spc' = "sp_check"
            /\ found_pending' = TRUE
            /\ cleared_since' = FALSE
  /\ UNCHANGED <<sync_mutex, dma_mutex, frame_idx, frame_idx_of_input_data,
                 has_data_to_render, last_input_data, last_input_offset, MasterExit,
                 window_should_close, rpc, got_chain, arg_data, arg_offset, init_frame,
                 sim_ret, slot_read, consumed, presented, synced, m_fbo_state,
                 settings, assert_failed, setup_log, display_created,
                 m_fullscreen_mode, m_fullscreen_target_mode, m_last_fullscreen_mode,
                 m_fullscreen_screen, m_fullscreen_target_screen, m_last_windowed,
                 m_minimized, m_last_video_mode, monitor_vmode, flushed, updated,
                 applied, roundtrip, last_call, shot_pc, shot_width, shot_height,
                 buffer, shot_h, read_back, png, renderer, graphics_data, gl_inited,
                 g_displays, has_window, m_main, fault, deref_null, last_entry,
                 g_key_status, g_buffered_key_status, input_mode, input_mode_index,
                 input_mode_pad, gamepad_idx, key_fault, key_call, press, last_map,
                 mapped_button>>

\* sync_cv.wait(lock, pred): the predicate check of the wait loop.
SyncPathCheck ==
  /\ spc = "sp_check"
  /\ sync_mutex = "sim"
  /\ spc' = IF SyncPathPredicate THEN "sp_ret" ELSE "sp_block"
  /\ UNCHANGED <<sync_mutex, dma_mutex, frame_idx, frame_idx_of_input_data,
                 has_data_to_render, last_input_data, last_input_offset, MasterExit,
                 window_should_close, rpc, got_chain, arg_data, arg_offset, init_frame,
                 sim_ret, slot_read, consumed, presented, found_pending, cleared_since,
                 synced, m_fbo_state, settings, assert_failed, setup_log,
                 display_created, m_fullscreen_mode, m_fullscreen_target_mode,
                 m_last_fullscreen_mode, m_fullscreen_screen,
                 m_fullscreen_target_screen, m_last_windowed, m_minimized,
                 m_last_video_mode, monitor_vmode, flushed, updated, applied,
                 roundtrip, last_call, shot_pc, shot_width, shot_height, buffer,
                 shot_h, read_back, png, renderer, graphics_data, gl_inited,
                 g_displays, has_window, m_main, fault, deref_null, last_entry,
                 g_key_status, g_buffered_key_status, input_mode, input_mode_index,
                 input_mode_pad, gamepad_idx, key_fault, key_call, press, last_map,
                 mapped_button>>

\* sync_cv.wait(lock): release sync_mutex and block.
SyncPathBlock ==
  /\ spc = "sp_block"
  /\ sync_mutex = "sim"
  /\ sync_mutex' = Free
  /\ spc' = "sp_blocked"
  /\ UNCHANGED <<dma_mutex, frame_idx, frame_idx_of_input_data, has_data_to_render,
                 last_input_data, last_input_offset, MasterExit, window_should_close,
                 rpc, got_chain, arg_data, arg_offset, init_frame, sim_ret, slot_read,
                 consumed, presented, found_pending, cleared_since, synced,
                 m_fbo_state, settings, assert_failed, setup_log, display_created,
                 m_fullscreen_mode, m_fullscreen_target_mode, m_last_fullscreen_mode,
                 m_fullscreen_screen, m_fullscreen_target_screen, m_last_windowed,
                 m_minimized, m_last_video_mode, monitor_vmode, flushed, updated,
                 applied, roundtrip, last_call, shot_pc, shot_width, shot_height,
                 buffer, shot_h, read_back, png, renderer, graphics_data, gl_inited,
                 g_displays, has_window, m_main, fault, deref_null, last_entry,
                 g_key_status, g_buffered_key_status, input_mode, input_mode_index,
                 input_mode_pad, gamepad_idx, key_fault, key_call, press, last_map,
                 mapped_button>>

\* A woken waiter re-acquires sync_mutex and re-checks the predicate.
SyncPathWoken ==
  /\ spc = "sp_woken"
  /\ sync_mutex = Free
  /\ sync_mutex' = "sim"
  /\ spc' = "sp_check"
  /\ UNCHANGED <<dma_mutex, frame_idx, frame_idx_of_input_data, has_data_to_render,
                 last_input_data, last_input_offset, MasterExit, window_should_close,
                 rpc, got_chain, arg_data, arg_offset, init_frame, sim_ret, slot_read,
                 consumed, presented, found_pending, cleared_since, synced,
                 m_fbo_state, settings, assert_failed, setup_log, display_created,
                 m_fullscreen_mode, m_fullscreen_target_mode, m_last_fullscreen_mode,
                 m_fullscreen_screen, m_fullscreen_target_screen, m_last_windowed,
                 m_minimized, m_last_video_mode, monitor_vmode, flushed, updated,
                 applied, roundtrip, last_call, shot_pc, shot_width, shot_height,
                 buffer, shot_h, read_back, png, renderer, graphics_data, gl_inited,
                 g_displays, has_window, m_main, fault, deref_null, last_entry,
                 g_key_status, g_buffered_key_status, input_mode, input_mode_index,
                 input_mode_pad, gamepad_idx, key_fault, key_call, press, last_map,
                 mapped_button>>

\* return 0; the lock is released on return.
SyncPathReturn ==
  /\ spc = "sp_ret"
  /\ sync_mutex = "sim"
  /\ sync_mutex' = Free
  /\ spc' = "idle"
  /\ synced' = TRUE
  /\ found_pending' = FALSE
  /\ cleared_since' = FALSE
  /\ UNCHANGED <<dma_mutex, frame_idx, frame_idx_of_input_data, has_data_to_render,
                 last_input_data, last_input_offset, MasterExit, window_should_close,
                 rpc, got_chain, arg_data, arg_offset, init_frame, sim_ret, slot_read,
                 consumed, presented, m_fbo_state, settings, assert_failed, setup_log,
                 display_created, m_fullscreen_mode, m_fullscreen_target_mode,
                 m_last_fullscreen_mode, m_fullscreen_screen,
                 m_fullscreen_target_screen, m_last_windowed, m_minimized,
                 m_last_video_mode, monitor_vmode, flushed, updated, applied,
                 roundtrip, last_call, shot_pc, shot_width, shot_height, buffer,
                 shot_h, read_back, png, renderer, graphics_data, gl_inited,
                 g_displays, has_window, m_main, fault, deref_null, last_entry,
                 g_key_status, g_buffered_key_status, input_mode, input_mode_index,
                 input_mode_pad, gamepad_idx, key_fault, key_call, press, last_map,
                 mapped_button>>

(***************************************************************************)
(* Game thread: gl_send_chain(data, offset)                                *)
(***************************************************************************)
\* Variant of SendChainPending: the pending check is missing.
SendChainPendingUnchecked == FALSE

\* if (g_graphics_data->has_data_to_render) { lg::error(...); return; }
SendChainPending == has_data_to_render

\* Entry: lock dma_mutex.
SendChainEnter(data, offset) ==
  /\ spc = "idle"
  /\ dma_mutex = Free
  /\ dma_mutex' = "sim"
  /\ arg_data' = data
  /\ arg_offset' = offset
  /\ spc' = "sc_check"
  /\ UNCHANGED <<sync_mutex, frame_idx, frame_idx_of_input_data, has_data_to_render,
                 last_input_data, last_input_offset, MasterExit, window_should_close,
                 rpc, got_chain, init_frame, sim_ret, slot_read, consumed, presented,
                 found_pending, cleared_since, synced, m_fbo_state, settings,
                 assert_failed, setup_log, display_created, m_fullscreen_mode,
                 m_fullscreen_target_mode, m_last_fullscreen_mode, m_fullscreen_screen,
                 m_fullscreen_target_screen, m_last_windowed, m_minimized,
                 m_last_video_mode, monitor_vmode, flushed, updated, applied,
                 roundtrip, last_call, shot_pc, shot_width, shot_height, buffer,
                 shot_h, read_back, png, renderer, graphics_data, gl_inited,
                 g_displays, has_window, m_main, fault, deref_null, last_entry,
                 g_key_status, g_buffered_key_status, input_mode, input_mode_index,
                 input_mode_pad, gamepad_idx, key_fault, key_call, press, last_map,
                 mapped_button>>

\* The pending check; the parameters are not used again on the rejecting path.
SendChainCheck ==
  /\ spc = "sc_check"
  /\ dma_mutex = "sim"
  /\ IF SendChainPending
       THEN /\ spc' = "sc_reject"
            /\ arg_data' = NoData
            /\ arg_offset' = 0
       ELSE /\ spc' = "sc_write"
            /\ UNCHANGED <<arg_data, arg_offset>>
  /\ UNCHANGED <<sync_mutex, dma_mutex, frame_idx, frame_idx_of_input_data,
                 has_data_to_render, last_input_data, last_input_offset, MasterExit,
                 window_should_close, rpc, got_chain, init_frame, sim_ret, slot_read,
                 consumed, presented, found_pending, cleared_since, synced,
                 m_fbo_state, settings, assert_failed, setup_log, display_created,
                 m_fullscreen_mode, m_fullscreen_target_mode, m_last_fullscreen_mode,
                 m_fullscreen_screen, m_fullscreen_target_screen, m_last_windowed,
                 m_minimized, m_last_video_mode, monitor_vmode, flushed, updated,
                 applied, roundtrip, last_call, shot_pc, shot_width, shot_height,
                 buffer, shot_h, read_back, png, renderer, graphics_data, gl_inited,
                 g_displays, has_window, m_main, fault, deref_null, last_entry,
                 g_key_status, g_buffered_key_status, input_mode, input_mode_index,
                 input_mode_pad, gamepad_idx, key_fault, key_call, press, last_map,
                 mapped_button>>

\* The rejected call logs and returns; the lock is released on return.
SendChainReject ==
  /\ spc = "sc_reject"
  /\ dma_mutex = "sim"
  /\ dma_mutex' = Free
  /\ spc' = "idle"
  /\ synced' = FALSE
  /\ UNCHANGED <<sync_mutex, frame_idx, frame_idx_of_input_data, has_data_to_render,
                 last_input_data, last_input_offset, MasterExit, window_should_close,
                 rpc, got_chain, arg_data, arg_offset, init_frame, sim_ret, slot_read,
                 consumed, presented, found_pending, cleared_since, m_fbo_state,
                 settings, assert_failed, setup_log, display_created,
                 m_fullscreen_mode, m_fullscreen_target_mode, m_last_fullscreen_mode,
                 m_fullscreen_screen, m_fullscreen_target_screen, m_last_windowed,
                 m_minimized, m_last_video_mode, monitor_vmode, flushed, updated,
                 applied, roundtrip, last_call, shot_pc, shot_width, shot_height,
                 buffer, shot_h, read_back, png, renderer, graphics_data, gl_inited,
                 g_displays, has_window, m_main, fault, deref_null, last_entry,
                 g_key_status, g_buffered_key_status, input_mode, input_mode_index,
                 input_mode_pad, gamepad_idx, key_fault, key_call, press, last_map,
                 mapped_button>>

\* dma_copier.set_input_data(data, offset, run_dma_copy)
SendChainWrite ==
  /\ spc = "sc_write"
  /\ dma_mutex = "sim"
  /\ last_input_data' = arg_data
  /\ last_input_offset' = arg_offset
  /\ arg_data' = NoData
  /\ arg_offset' = 0
  /\ spc' = "sc_publish"
  /\ UNCHANGED <<sync_mutex, dma_mutex, frame_idx, frame_idx_of_input_data,
                 has_data_to_render, MasterExit, window_should_close, rpc, got_chain,
                 init_frame, sim_ret, slot_read, consumed, presented, found_pending,
                 cleared_since, synced, m_fbo_state, settings, assert_failed,
                 setup_log, display_created, m_fullscreen_mode,
                 m_fullscreen_target_mode, m_last_fullscreen_mode, m_fullscreen_screen,
                 m_fullscreen_target_screen, m_last_windowed, m_minimized,
                 m_last_video_mode, monitor_vmode, flushed, updated, applied,
                 roundtrip, last_call, shot_pc, shot_width, shot_height, buffer,
                 shot_h, read_back, png, renderer, graphics_data, gl_inited,
                 g_displays, has_window, m_main, fault, deref_null, last_entry,
                 g_key_status, g_buffered_key_status, input_mode, input_mode_index,
                 input_mode_pad, gamepad_idx, key_fault, key_call, press, last_map,
                 mapped_button>>

\* has_data_to_render = true; dma_cv.notify_all(); return (unlock).
SendChainPublish ==
  /\ spc = "sc_publish"
  /\ dma_mutex = "sim"
  /\ has_data_to_render' = TRUE
  /\ rpc' = NotifyDmaCv(rpc)
  /\ dma_mutex' = Free
  /\ spc' = "idle"
  /\ slot_read' = FALSE
  /\ synced' = FALSE
  /\ UNCHANGED <<sync_mutex, frame_idx, frame_idx_of_input_data, last_input_data,
                 last_input_offset, MasterExit, window_should_close, got_chain,
                 arg_data, arg_offset, init_frame, sim_ret, consumed, presented,
                 found_pending, cleared_since, m_fbo_state, settings, assert_failed,
                 setup_log, display_created, m_fullscreen_mode,
                 m_fullscreen_target_mode, m_last_fullscreen_mode, m_fullscreen_screen,
                 m_fullscreen_target_screen, m_last_windowed, m_minimized,
                 m_last_video_mode, monitor_vmode, flushed, updated, applied,
                 roundtrip, last_call, shot_pc, shot_width, shot_height, buffer,
                 shot_h, read_back, png, renderer, graphics_data, gl_inited,
                 g_displays, has_window, m_main, fault, deref_null, last_entry,
                 g_key_status, g_buffered_key_status, input_mode, input_mode_index,
                 input_mode_pad, gamepad_idx, key_fault, key_call, press, last_map,
                 mapped_button>>

(***************************************************************************)
(* Render thread: Graphics::Loop, OpenGLDisplay::render, render_game_frame *)
(***************************************************************************)
\* while (f()): the loop predicate is supplied by the caller; it holds ...
LoopContinue ==
  /\ rpc = "loop"
  /\ frame_idx < MaxFrameIdx
  /\ rpc' = "poll"
  /\ UNCHANGED <<sync_mutex, dma_mutex, frame_idx, frame_idx_of_input_data,
                 has_data_to_render, last_input_data, last_input_offset, MasterExit,
                 window_should_close, got_chain, spc, arg_data, arg_offset, init_frame,
                 sim_ret, slot_read, consumed, presented, found_pending, cleared_since,
                 synced, m_fbo_state, settings, assert_failed, setup_log,
                 display_created, m_fullscreen_mode, m_fullscreen_target_mode,
                 m_last_fullscreen_mode, m_fullscreen_screen,
                 m_fullscreen_target_screen, m_last_windowed, m_minimized,
                 m_last_video_mode, monitor_vmode, flushed, updated, applied,
                 roundtrip, last_call, shot_pc, shot_width, shot_height, buffer,
                 shot_h, read_back, png, renderer, graphics_data, gl_inited,
                 g_displays, has_window, m_main, fault, deref_null, last_entry,
                 g_key_status, g_buffered_key_status, input_mode, input_mode_index,
                 input_mode_pad, gamepad_idx, key_fault, key_call, press, last_map,
                 mapped_button>>

\* ... or it fails and Loop returns.
LoopStop ==
  /\ rpc = "loop"
  /\ rpc' = "stopped"
  /\ UNCHANGED <<sync_mutex, dma_mutex, frame_idx, frame_idx_of_input_data,
                 has_data_to_render, last_input_data, last_input_offset, MasterExit,
                 window_should_close, got_chain, spc, arg_data, arg_offset, init_frame,
                 sim_ret, slot_read, consumed, presented, found_pending, cleared_since,
                 synced, m_fbo_state, settings, assert_failed, setup_log,
                 display_created, m_fullscreen_mode, m_fullscreen_target_mode,
                 m_last_fullscreen_mode, m_fullscreen_screen,
                 m_fullscreen_target_screen, m_last_windowed, m_minimized,
                 m_last_video_mode, monitor_vmode, flushed, updated, applied,
                 roundtrip, last_call, shot_pc, shot_width, shot_height, buffer,
                 shot_h, read_back, png, renderer, graphics_data, gl_inited,
                 g_displays, has_window, m_main, fault, deref_null, last_entry,
                 g_key_status, g_buffered_key_status, input_mode, input_mode_index,
                 input_mode_pad, gamepad_idx, key_fault, key_call, press, last_map,
                 mapped_button>>

\* glfwPollEvents(): the user may have asked to close the window.
PollEvents ==
  /\ rpc = "poll"
  /\ \E close \in BOOLEAN : window_should_close' = (window_should_close \/ close)
  /\ rpc' = "advance"
  /\ UNCHANGED <<sync_mutex, dma_mutex, frame_idx, frame_idx_of_input_data,
                 has_data_to_render, last_input_data, last_input_offset, MasterExit,
                 got_chain, spc, arg_data, arg_offset, init_frame, sim_ret, slot_read,
                 consumed, presented, found_pending, cleared_since, synced,
                 m_fbo_state, settings, assert_failed, setup_log, display_created,
                 m_fullscreen_mode, m_fullscreen_target_mode, m_last_fullscreen_mode,
                 m_fullscreen_screen, m_fullscreen_target_screen, m_last_windowed,
                 m_minimized, m_last_video_mode, monitor_vmode, flushed, updated,
                 applied, roundtrip, last_call, shot_pc, shot_width, shot_height,
                 buffer, shot_h, read_back, png, renderer, graphics_data, gl_inited,
                 g_displays, has_window, m_main, fault, deref_null, last_entry,
                 g_key_status, g_buffered_key_status, input_mode, input_mode_index,
                 input_mode_pad, gamepad_idx, key_fault, key_call, press, last_map,
                 mapped_button>>

\* if (debug_gui.should_advance_frame()) render_game_frame(...)
ShouldAdvanceFrame ==
  /\ rpc = "advance"
  /\ \E advance \in BOOLEAN : rpc' = IF advance THEN "rg_lock1" ELSE "swap"
  /\ UNCHANGED <<sync_mutex, dma_mutex, frame_idx, frame_idx_of_input_data,
                 has_data_to_render, last_input_data, last_input_offset, MasterExit,
                 window_should_close, got_chain, spc, arg_data, arg_offset, init_frame,
                 sim_ret, slot_read, consumed, presented, found_pending, cleared_since,
                 synced, m_fbo_state, settings, assert_failed, setup_log,
                 display_created, m_fullscreen_mode, m_fullscreen_target_mode,
                 m_last_fullscreen_mode, m_fullscreen_screen,
                 m_fullscreen_target_screen, m_last_windowed, m_minimized,
                 m_last_video_mode, monitor_vmode, flushed, updated, applied,
                 roundtrip, last_call, shot_pc, shot_width, shot_height, buffer,
                 shot_h, read_back, png, renderer, graphics_data, gl_inited,
                 g_displays, has_window, m_main, fault, deref_null, last_entry,
                 g_key_status, g_buffered_key_status, input_mode, input_mode_index,
                 input_mode_pad, gamepad_idx, key_fault, key_call, press, last_map,
                 mapped_button>>

\* The wait predicate of render_game_frame's dma_cv.wait_for.
WaitForChainPredicate == has_data_to_render

\* std::unique_lock<std::mutex> lock(dma_mutex) of the first block.
RenderFrameLock ==
  /\ rpc = "rg_lock1"
  /\ dma_mutex = Free
  /\ dma_mutex' = "render"
  /\ rpc' = "rg_wait"
  /\ UNCHANGED <<sync_mutex, frame_idx, frame_idx_of_input_data, has_data_to_render,
                 last_input_data, last_input_offset, MasterExit, window_should_close,
                 got_chain, spc, arg_data, arg_offset, init_frame, sim_ret, slot_read,
                 consumed, presented, found_pending, cleared_since, synced,
                 m_fbo_state, settings, assert_failed, setup_log, display_created,
                 m_fullscreen_mode, m_fullscreen_target_mode, m_last_fullscreen_mode,
                 m_fullscreen_screen, m_fullscreen_target_screen, m_last_windowed,
                 m_minimized, m_last_video_mode, monitor_vmode, flushed, updated,
                 applied, roundtrip, last_call, shot_pc, shot_width, shot_height,
                 buffer, shot_h, read_back, png, renderer, graphics_data, gl_inited,
                 g_displays, has_window, m_main, fault, deref_null, last_entry,
                 g_key_status, g_buffered_key_status, input_mode, input_mode_index,
                 input_mode_pad, gamepad_idx, key_fault, key_call, press, last_map,
                 mapped_button>>

\* Variant of RenderFrameWait: the chain is marked as rendered as soon as it is
\* taken, before it is read.
RenderFrameWaitClearing ==
  /\ rpc = "rg_wait"
  /\ dma_mutex = "render"
  /\ dma_mutex' = Free
  /\ IF WaitForChainPredicate
       THEN /\ got_chain' = TRUE
            /\ has_data_to_render' = FALSE
            /\ rpc' = "rg_take"
       ELSE /\ rpc' = "rg_blocked"
            /\ UNCHANGED <<got_chain, has_data_to_render>>
  /\ UNCHANGED <<sync_mutex, frame_idx, frame_idx_of_input_data, last_input_data,
                 last_input_offset, MasterExit, window_should_close, spc, arg_data,
                 arg_offset, init_frame, sim_ret, slot_read, consumed, presented,
                 found_pending, cleared_since, synced, m_fbo_state, settings,
                 assert_failed, setup_log, display_created, m_fullscreen_mode,
                 m_fullscreen_target_mode, m_last_fullscreen_mode, m_fullscreen_screen,
                 m_fullscreen_target_screen, m_last_windowed, m_minimized,
                 m_last_video_mode, monitor_vmode, flushed, updated, applied,
                 roundtrip, last_call, shot_pc, shot_width, shot_height, buffer,
                 shot_h, read_back, png, renderer, graphics_data, gl_inited,
                 g_displays, has_window, m_main, fault, deref_null, last_entry,
                 g_key_status, g_buffered_key_status, input_mode, input_mode_index,
                 input_mode_pad, gamepad_idx, key_fault, key_call, press, last_map,
                 mapped_button>>

\* dma_cv.wait_for(lock, 50ms, pred): predicate true -> got_chain = true and the
\* block ends (unlock); predicate false -> release the lock and block on dma_cv.
RenderFrameWait ==
  /\ rpc = "rg_wait"
  /\ dma_mutex = "render"
  /\ dma_mutex' = Free
  /\ IF WaitForChainPredicate
       THEN /\ got_chain' = TRUE
            /\ rpc' = "rg_take"
       ELSE /\ rpc' = "rg_blocked"
            /\ UNCHANGED got_chain
  /\ UNCHANGED <<sync_mutex, frame_idx, frame_idx_of_input_data, has_data_to_render,
                 last_input_data, last_input_offset, MasterExit, window_should_close,
                 spc, arg_data, arg_offset, init_frame, sim_ret, slot_read, consumed,
                 presented, found_pending, cleared_since, synced, m_fbo_state,
                 settings, assert_failed, setup_log, display_created,
                 m_fullscreen_mode, m_fullscreen_target_mode, m_last_fullscreen_mode,
                 m_fullscreen_screen, m_fullscreen_target_screen, m_last_windowed,
                 m_minimized, m_last_video_mode, monitor_vmode, flushed, updated,
                 applied, roundtrip, last_call, shot_pc, shot_width, shot_height,
                 buffer, shot_h, read_back, png, renderer, graphics_data, gl_inited,
                 g_displays, has_window, m_main, fault, deref_null, last_entry,
                 g_key_status, g_buffered_key_status, input_mode, input_mode_index,
                 input_mode_pad, gamepad_idx, key_fault, key_call, press, last_map,
                 mapped_button>>

\* Variant of RenderFrameTimeout: the wait has no timeout and ends only with a
\* published chain.
RenderFrameUntimedWait ==
  /\ rpc = "rg_blocked"
  /\ has_data_to_render
  /\ rpc' = "rg_timedout"
  /\ UNCHANGED <<sync_mutex, dma_mutex, frame_idx, frame_idx_of_input_data,
                 has_data_to_render, last_input_data, last_input_offset, MasterExit,
                 window_should_close, got_chain, spc, arg_data, arg_offset, init_frame,
                 sim_ret, slot_read, consumed, presented, found_pending, cleared_since,
                 synced, m_fbo_state, settings, assert_failed, setup_log,
                 display_created, m_fullscreen_mode, m_fullscreen_target_mode,
                 m_last_fullscreen_mode, m_fullscreen_screen,
                 m_fullscreen_target_screen, m_last_windowed, m_minimized,
                 m_last_video_mode, monitor_vmode, flushed, updated, applied,
                 roundtrip, last_call, shot_pc, shot_width, shot_height, buffer,
                 shot_h, read_back, png, renderer, graphics_data, gl_inited,
                 g_displays, has_window, m_main, fault, deref_null, last_entry,
                 g_key_status, g_buffered_key_status, input_mode, input_mode_index,
                 input_mode_pad, gamepad_idx, key_fault, key_call, press, last_map,
                 mapped_button>>

\* The 50 ms of the timed wait elapse.
RenderFrameTimeout ==
  /\ rpc = "rg_blocked"
  /\ rpc' = "rg_timedout"
  /\ UNCHANGED <<sync_mutex, dma_mutex, frame_idx, frame_idx_of_input_data,
                 has_data_to_render, last_input_data, last_input_offset, MasterExit,
                 window_should_close, got_chain, spc, arg_data, arg_offset, init_frame,
                 sim_ret, slot_read, consumed, presented, found_pending, cleared_since,
                 synced, m_fbo_state, settings, assert_failed, setup_log,
                 display_created, m_fullscreen_mode, m_fullscreen_target_mode,
                 m_last_fullscreen_mode, m_fullscreen_screen,
                 m_fullscreen_target_screen, m_last_windowed, m_minimized,
                 m_last_video_mode, monitor_vmode, flushed, updated, applied,
                 roundtrip, last_call, shot_pc, shot_width, shot_height, buffer,
                 shot_h, read_back, png, renderer, graphics_data, gl_inited,
                 g_displays, has_window, m_main, fault, deref_null, last_entry,
                 g_key_status, g_buffered_key_status, input_mode, input_mode_index,
                 input_mode_pad, gamepad_idx, key_fault, key_call, press, last_map,
                 mapped_button>>

\* After the timeout wait_for re-acquires the lock and returns pred(); the block
\* ends (unlock).
RenderFrameTimedOut ==
  /\ rpc = "rg_timedout"
  /\ dma_mutex = Free
  /\ got_chain' = WaitForChainPredicate
  /\ rpc' = IF WaitForChainPredicate THEN "rg_take" ELSE "rg_lock2"
  /\ UNCHANGED <<sync_mutex, dma_mutex, frame_idx, frame_idx_of_input_data,
                 has_data_to_render, last_input_data, last_input_offset, MasterExit,
                 window_should_close, spc, arg_data, arg_offset, init_frame, sim_ret,
                 slot_read, consumed, presented, found_pending, cleared_since, synced,
                 m_fbo_state, settings, assert_failed, setup_log, display_created,
                 m_fullscreen_mode, m_fullscreen_target_mode, m_last_fullscreen_mode,
                 m_fullscreen_screen, m_fullscreen_target_screen, m_last_windowed,
                 m_minimized, m_last_video_mode, monitor_vmode, flushed, updated,
                 applied, roundtrip, last_call, shot_pc, shot_width, shot_height,
                 buffer, shot_h, read_back, png, renderer, graphics_data, gl_inited,
                 g_displays, has_window, m_main, fault, deref_null, last_entry,
                 g_key_status, g_buffered_key_status, input_mode, input_mode_index,
                 input_mode_pad, gamepad_idx, key_fault, key_call, press, last_map,
                 mapped_button>>

\* A woken waiter re-acquires dma_mutex and re-checks the predicate.
RenderFrameWoken ==
  /\ rpc = "rg_woken"
  /\ dma_mutex = Free
  /\ dma_mutex' = "render"
  /\ rpc' = "rg_wait"
  /\ UNCHANGED <<sync_mutex, frame_idx, frame_idx_of_input_data, has_data_to_render,
                 last_input_data, last_input_offset, MasterExit, window_should_close,
                 got_chain, spc, arg_data, arg_offset, init_frame, sim_ret, slot_read,
                 consumed, presented, found_pending, cleared_since, synced,
                 m_fbo_state, settings, assert_failed, setup_log, display_created,
                 m_fullscreen_mode, m_fullscreen_target_mode, m_last_fullscreen_mode,
                 m_fullscreen_screen, m_fullscreen_target_screen, m_last_windowed,
                 m_minimized, m_last_video_mode, monitor_vmode, flushed, updated,
                 applied, roundtrip, last_call, shot_pc, shot_width, shot_height,
                 buffer, shot_h, read_back, png, renderer, graphics_data, gl_inited,
                 g_displays, has_window, m_main, fault, deref_null, last_entry,
                 g_key_status, g_buffered_key_status, input_mode, input_mode_index,
                 input_mode_pad, gamepad_idx, key_fault, key_call, press, last_map,
                 mapped_button>>

\* Variant of RenderFrameTake: the baseline is the index the frame will have once
\* it is presented.
RenderFrameTakeAhead ==
  /\ rpc = "rg_take"
  /\ frame_idx_of_input_data' = frame_idx + 1
  /\ rpc' = "rg_render"
  /\ UNCHANGED <<sync_mutex, dma_mutex, frame_idx, has_data_to_render, last_input_data,
                 last_input_offset, MasterExit, window_should_close, got_chain, spc,
                 arg_data, arg_offset, init_frame, sim_ret, slot_read, consumed,
                 presented, found_pending, cleared_since, synced, m_fbo_state,
                 settings, assert_failed, setup_log, display_created,
                 m_fullscreen_mode, m_fullscreen_target_mode, m_last_fullscreen_mode,
                 m_fullscreen_screen, m_fullscreen_target_screen, m_last_windowed,
                 m_minimized, m_last_video_mode, monitor_vmode, flushed, updated,
                 applied, roundtrip, last_call, shot_pc, shot_width, shot_height,
                 buffer, shot_h, read_back, png, renderer, graphics_data, gl_inited,
                 g_displays, has_window, m_main, fault, deref_null, last_entry,
                 g_key_status, g_buffered_key_status, input_mode, input_mode_index,
                 input_mode_pad, gamepad_idx, key_fault, key_call, press, last_map,
                 mapped_button>>

\* if (got_chain) { frame_idx_of_input_data = frame_idx; ... (no lock held)
RenderFrameTake ==
  /\ rpc = "rg_take"
  /\ frame_idx_of_input_data' = frame_idx
  /\ rpc' = "rg_render"
  /\ UNCHANGED <<sync_mutex, dma_mutex, frame_idx, has_data_to_render, last_input_data,
                 last_input_offset, MasterExit, window_should_close, got_chain, spc,
                 arg_data, arg_offset, init_frame, sim_ret, slot_read, consumed,
                 presented, found_pending, cleared_since, synced, m_fbo_state,
                 settings, assert_failed, setup_log, display_created,
                 m_fullscreen_mode, m_fullscreen_target_mode, m_last_fullscreen_mode,
                 m_fullscreen_screen, m_fullscreen_target_screen, m_last_windowed,
                 m_minimized, m_last_video_mode, monitor_vmode, flushed, updated,
                 applied, roundtrip, last_call, shot_pc, shot_width, shot_height,
                 buffer, shot_h, read_back, png, renderer, graphics_data, gl_inited,
                 g_displays, has_window, m_main, fault, deref_null, last_entry,
                 g_key_status, g_buffered_key_status, input_mode, input_mode_index,
                 input_mode_pad, gamepad_idx, key_fault, key_call, press, last_map,
                 mapped_button>>

\* ogl_renderer.render(DmaFollower(get_last_input_data(), get_last_input_offset()),
\* options) has read the chain (no lock held while it runs).
RenderFrameRender ==
  /\ rpc = "rg_render"
  /\ slot_read' = TRUE
  /\ rpc' = "rg_lock2"
  /\ UNCHANGED <<sync_mutex, dma_mutex, frame_idx, frame_idx_of_input_data,
                 has_data_to_render, last_input_data, last_input_offset, MasterExit,
                 window_should_close, got_chain, spc, arg_data, arg_offset, init_frame,
                 sim_ret, consumed, presented, found_pending, cleared_since, synced,
                 m_fbo_state, settings, assert_failed, setup_log, display_created,
                 m_fullscreen_mode, m_fullscreen_target_mode, m_last_fullscreen_mode,
                 m_fullscreen_screen, m_fullscreen_target_screen, m_last_windowed,
                 m_minimized, m_last_video_mode, monitor_vmode, flushed, updated,
                 applied, roundtrip, last_call, shot_pc, shot_width, shot_height,
                 buffer, shot_h, read_back, png, renderer, graphics_data, gl_inited,
                 g_displays, has_window, m_main, fault, deref_null, last_entry,
                 g_key_status, g_buffered_key_status, input_mode, input_mode_index,
                 input_mode_pad, gamepad_idx, key_fault, key_call, press, last_map,
                 mapped_button>>

\* std::unique_lock<std::mutex> lock(dma_mutex) of the second block (reached
\* whether or not a chain was rendered).
RenderFrameLock2 ==
  /\ rpc = "rg_lock2"
  /\ dma_mutex = Free
  /\ dma_mutex' = "render"
  /\ rpc' = "rg_clear"
  /\ UNCHANGED <<sync_mutex, frame_idx, frame_idx_of_input_data, has_data_to_render,
                 last_input_data, last_input_offset, MasterExit, window_should_close,
                 got_chain, spc, arg_data, arg_offset, init_frame, sim_ret, slot_read,
                 consumed, presented, found_pending, cleared_since, synced,
                 m_fbo_state, settings, assert_failed, setup_log, display_created,
                 m_fullscreen_mode, m_fullscreen_target_mode, m_last_fullscreen_mode,
                 m_fullscreen_screen, m_fullscreen_target_screen, m_last_windowed,
                 m_minimized, m_last_video_mode, monitor_vmode, flushed, updated,
                 applied, roundtrip, last_call, shot_pc, shot_width, shot_height,
                 buffer, shot_h, read_back, png, renderer, graphics_data, gl_inited,
                 g_displays, has_window, m_main, fault, deref_null, last_entry,
                 g_key_status, g_buffered_key_status, input_mode, input_mode_index,
                 input_mode_pad, gamepad_idx, key_fault, key_call, press, last_map,
                 mapped_button>>

\* Variant of RenderFrameClear: marking the chain as rendered also advances the
\* frame index.
RenderFrameClearAdvancing ==
  /\ rpc = "rg_clear"
  /\ dma_mutex = "render"
  /\ has_data_to_render' = FALSE
  /\ frame_idx' = frame_idx + 1
  /\ spc' = NotifySyncCv(spc)
  /\ dma_mutex' = Free
  /\ got_chain' = FALSE
  /\ cleared_since' = found_pending
  /\ consumed' = IF has_data_to_render THEN consumed + 1 ELSE consumed
  /\ rpc' = "swap"
  /\ UNCHANGED <<sync_mutex, frame_idx_of_input_data, last_input_data,
                 last_input_offset, MasterExit, window_should_close, arg_data,
                 arg_offset, init_frame, sim_ret, slot_read, presented, found_pending,
                 synced, m_fbo_state, settings, assert_failed, setup_log,
                 display_created, m_fullscreen_mode, m_fullscreen_target_mode,
                 m_last_fullscreen_mode, m_fullscreen_screen,
                 m_fullscreen_target_screen, m_last_windowed, m_minimized,
                 m_last_video_mode, monitor_vmode, flushed, updated, applied,
                 roundtrip, last_call, shot_pc, shot_width, shot_height, buffer,
                 shot_h, read_back, png, renderer, graphics_data, gl_inited,
                 g_displays, has_window, m_main, fault, deref_null, last_entry,
                 g_key_status, g_buffered_key_status, input_mode, input_mode_index,
                 input_mode_pad, gamepad_idx, key_fault, key_call, press, last_map,
                 mapped_button>>

\* has_data_to_render = false; sync_cv.notify_all(); then unlock and return.
RenderFrameClear ==
  /\ rpc = "rg_clear"
  /\ dma_mutex = "render"
  /\ has_data_to_render' = FALSE
  /\ spc' = NotifySyncCv(spc)
  /\ dma_mutex' = Free
  /\ got_chain' = FALSE
  /\ cleared_since' = found_pending
  /\ consumed' = IF has_data_to_render THEN consumed + 1 ELSE consumed
  /\ rpc' = "swap"
  /\ UNCHANGED <<sync_mutex, frame_idx, frame_idx_of_input_data, last_input_data,
                 last_input_offset, MasterExit, window_should_close, arg_data,
                 arg_offset, init_frame, sim_ret, slot_read, presented, found_pending,
                 synced, m_fbo_state, settings, assert_failed, setup_log,
                 display_created, m_fullscreen_mode, m_fullscreen_target_mode,
                 m_last_fullscreen_mode, m_fullscreen_screen,
                 m_fullscreen_target_screen, m_last_windowed, m_minimized,
                 m_last_video_mode, monitor_vmode, flushed, updated, applied,
                 roundtrip, last_call, shot_pc, shot_width, shot_height, buffer,
                 shot_h, read_back, png, renderer, graphics_data, gl_inited,
                 g_displays, has_window, m_main, fault, deref_null, last_entry,
                 g_key_status, g_buffered_key_status, input_mode, input_mode_index,
                 input_mode_pad, gamepad_idx, key_fault, key_call, press, last_map,
                 mapped_button>>

\* Variant of SwapBuffers: the iteration goes on without presenting.
SwapBuffersSkipped ==
  /\ rpc = "swap"
  /\ rpc' = "fi_lock"
  /\ UNCHANGED <<sync_mutex, dma_mutex, frame_idx, frame_idx_of_input_data,
                 has_data_to_render, last_input_data, last_input_offset, MasterExit,
                 window_should_close, got_chain, spc, arg_data, arg_offset, init_frame,
                 sim_ret, slot_read, consumed, presented, found_pending, cleared_since,
                 synced, m_fbo_state, settings, assert_failed, setup_log,
                 display_created, m_fullscreen_mode, m_fullscreen_target_mode,
                 m_last_fullscreen_mode, m_fullscreen_screen,
                 m_fullscreen_target_screen, m_last_windowed, m_minimized,
                 m_last_video_mode, monitor_vmode, flushed, updated, applied,
                 roundtrip, last_call, shot_pc, shot_width, shot_height, buffer,
                 shot_h, read_back, png, renderer, graphics_data, gl_inited,
                 g_displays, has_window, m_main, fault, deref_null, last_entry,
                 g_key_status, g_buffered_key_status, input_mode, input_mode_index,
                 input_mode_pad, gamepad_idx, key_fault, key_call, press, last_map,
                 mapped_button>>

\* glfwSwapBuffers(m_window)
SwapBuffers ==
  /\ rpc = "swap"
  /\ presented' = presented + 1
  /\ rpc' = "fi_lock"
  /\ UNCHANGED <<sync_mutex, dma_mutex, frame_idx, frame_idx_of_input_data,
                 has_data_to_render, last_input_data, last_input_offset, MasterExit,
                 window_should_close, got_chain, spc, arg_data, arg_offset, init_frame,
                 sim_ret, slot_read, consumed, found_pending, cleared_since, synced,
                 m_fbo_state, settings, assert_failed, setup_log, display_created,
                 m_fullscreen_mode, m_fullscreen_target_mode, m_last_fullscreen_mode,
                 m_fullscreen_screen, m_fullscreen_target_screen, m_last_windowed,
                 m_minimized, m_last_video_mode, monitor_vmode, flushed, updated,
                 applied, roundtrip, last_call, shot_pc, shot_width, shot_height,
                 buffer, shot_h, read_back, png, renderer, graphics_data, gl_inited,
                 g_displays, has_window, m_main, fault, deref_null, last_entry,
                 g_key_status, g_buffered_key_status, input_mode, input_mode_index,
                 input_mode_pad, gamepad_idx, key_fault, key_call, press, last_map,
                 mapped_button>>

\* std::unique_lock<std::mutex> lock(sync_mutex)
FrameDoneLock ==
  /\ rpc = "fi_lock"
  /\ sync_mutex = Free
  /\ sync_mutex' = "render"
  /\ rpc' = "fi_inc"
  /\ UNCHANGED <<dma_mutex, frame_idx, frame_idx_of_input_data, has_data_to_render,
                 last_input_data, last_input_offset, MasterExit, window_should_close,
                 got_chain, spc, arg_data, arg_offset, init_frame, sim_ret, slot_read,
                 consumed, presented, found_pending, cleared_since, synced,
                 m_fbo_state, settings, assert_failed, setup_log, display_created,
                 m_fullscreen_mode, m_fullscreen_target_mode, m_last_fullscreen_mode,
                 m_fullscreen_screen, m_fullscreen_target_screen, m_last_windowed,
                 m_minimized, m_last_video_mode, monitor_vmode, flushed, updated,
                 applied, roundtrip, last_call, shot_pc, shot_width, shot_height,
                 buffer, shot_h, read_back, png, renderer, graphics_data, gl_inited,
                 g_displays, has_window, m_main, fault, deref_null, last_entry,
                 g_key_status, g_buffered_key_status, input_mode, input_mode_index,
                 input_mode_pad, gamepad_idx, key_fault, key_call, press, last_map,
                 mapped_button>>

\* Variant of FrameDone: the waiters on sync_cv are not notified.
FrameDoneSilent ==
  /\ rpc = "fi_inc"
  /\ sync_mutex = "render"
  /\ frame_idx' = frame_idx + 1
  /\ sync_mutex' = Free
  /\ rpc' = "fullscreen"
  /\ UNCHANGED <<dma_mutex, frame_idx_of_input_data, has_data_to_render,
                 last_input_data, last_input_offset, MasterExit, window_should_close,
                 got_chain, spc, arg_data, arg_offset, init_frame, sim_ret, slot_read,
                 consumed, presented, found_pending, cleared_since, synced,
                 m_fbo_state, settings, assert_failed, setup_log, display_created,
                 m_fullscreen_mode, m_fullscreen_target_mode, m_last_fullscreen_mode,
                 m_fullscreen_screen, m_fullscreen_target_screen, m_last_windowed,
                 m_minimized, m_last_video_mode, monitor_vmode, flushed, updated,
                 applied, roundtrip, last_call, shot_pc, shot_width, shot_height,
                 buffer, shot_h, read_back, png, renderer, graphics_data, gl_inited,
                 g_displays, has_window, m_main, fault, deref_null, last_entry,
                 g_key_status, g_buffered_key_status, input_mode, input_mode_index,
                 input_mode_pad, gamepad_idx, key_fault, key_call, press, last_map,
                 mapped_button>>

\* frame_idx++; sync_cv.notify_all(); unlock.
FrameDone ==
  /\ rpc = "fi_inc"
  /\ sync_mutex = "render"
  /\ frame_idx' = frame_idx + 1
  /\ spc' = NotifySyncCv(spc)
  /\ sync_mutex' = Free
  /\ rpc' = "fullscreen"
  /\ UNCHANGED <<dma_mutex, frame_idx_of_input_data, has_data_to_render,
                 last_input_data, last_input_offset, MasterExit, window_should_close,
                 got_chain, arg_data, arg_offset, init_frame, sim_ret, slot_read,
                 consumed, presented, found_pending, cleared_since, synced,
                 m_fbo_state, settings, assert_failed, setup_log, display_created,
                 m_fullscreen_mode, m_fullscreen_target_mode, m_last_fullscreen_mode,
                 m_fullscreen_screen, m_fullscreen_target_screen, m_last_windowed,
                 m_minimized, m_last_video_mode, monitor_vmode, flushed, updated,
                 applied, roundtrip, last_call, shot_pc, shot_width, shot_height,
                 buffer, shot_h, read_back, png, renderer, graphics_data, gl_inited,
                 g_displays, has_window, m_main, fault, deref_null, last_entry,
                 g_key_status, g_buffered_key_status, input_mode, input_mode_index,
                 input_mode_pad, gamepad_idx, key_fault, key_call, press, last_map,
                 mapped_button>>

\* update_last_fullscreen_mode(); if (fullscreen_pending() && !minimized())
\* fullscreen_flush();  The display-mode fields this reads and writes are private
\* to the render thread and take no part in the frame handoff.
UpdateFullscreen ==
  /\ rpc = "fullscreen"
  /\ rpc' = "exit_check"
  /\ UNCHANGED <<sync_mutex, dma_mutex, frame_idx, frame_idx_of_input_data,
                 has_data_to_render, last_input_data, last_input_offset, MasterExit,
                 window_should_close, got_chain, spc, arg_data, arg_offset, init_frame,
                 sim_ret, slot_read, consumed, presented, found_pending, cleared_since,
                 synced, m_fbo_state, settings, assert_failed, setup_log,
                 display_created, m_fullscreen_mode, m_fullscreen_target_mode,
                 m_last_fullscreen_mode, m_fullscreen_screen,
                 m_fullscreen_target_screen, m_last_windowed, m_minimized,
                 m_last_video_mode, monitor_vmode, flushed, updated, applied,
                 roundtrip, last_call, shot_pc, shot_width, shot_height, buffer,
                 shot_h, read_back, png, renderer, graphics_data, gl_inited,
                 g_displays, has_window, m_main, fault, deref_null, last_entry,
                 g_key_status, g_buffered_key_status, input_mode, input_mode_index,
                 input_mode_pad, gamepad_idx, key_fault, key_call, press, last_map,
                 mapped_button>>

\* if (glfwWindowShouldClose(m_window)) { lock(sync_mutex); MasterExit = EXIT;
\* sync_cv.notify_all(); }
ExitCheck ==
  /\ rpc = "exit_check"
  /\ IF window_should_close
       THEN /\ sync_mutex = Free
            /\ MasterExit' = "EXIT"
            /\ spc' = NotifySyncCv(spc)
       ELSE UNCHANGED <<MasterExit, spc>>
  /\ rpc' = "loop"
  /\ UNCHANGED <<sync_mutex, dma_mutex, frame_idx, frame_idx_of_input_data,
                 has_data_to_render, last_input_data, last_input_offset,
                 window_should_close, got_chain, arg_data, arg_offset, init_frame,
                 sim_ret, slot_read, consumed, presented, found_pending, cleared_since,
                 synced, m_fbo_state, settings, assert_failed, setup_log,
                 display_created, m_fullscreen_mode, m_fullscreen_target_mode,
                 m_last_fullscreen_mode, m_fullscreen_screen,
                 m_fullscreen_target_screen, m_last_windowed, m_minimized,
                 m_last_video_mode, monitor_vmode, flushed, updated, applied,
                 roundtrip, last_call, shot_pc, shot_width, shot_height, buffer,
                 shot_h, read_back, png, renderer, graphics_data, gl_inited,
                 g_displays, has_window, m_main, fault, deref_null, last_entry,
                 g_key_status, g_buffered_key_status, input_mode, input_mode_index,
                 input_mode_pad, gamepad_idx, key_fault, key_call, press, last_map,
                 mapped_button>>

(***************************************************************************)
(* Spurious wakeups of the condition-variable waits.                       *)
(***************************************************************************)
SpuriousWakeup ==
  /\ \/ /\ spc \in {"vs_blocked", "sp_blocked"}
        /\ spc' = NotifySyncCv(spc)
        /\ UNCHANGED rpc
     \/ /\ rpc = "rg_blocked"
        /\ rpc' = NotifyDmaCv(rpc)
        /\ UNCHANGED spc
  /\ UNCHANGED <<sync_mutex, dma_mutex, frame_idx, frame_idx_of_input_data,
                 has_data_to_render, last_input_data, last_input_offset, MasterExit,
                 window_should_close, got_chain, arg_data, arg_offset, init_frame,
                 sim_ret, slot_read, consumed, presented, found_pending, cleared_since,
                 synced, m_fbo_state, settings, assert_failed, setup_log,
                 display_created, m_fullscreen_mode, m_fullscreen_target_mode,
                 m_last_fullscreen_mode, m_fullscreen_screen,
                 m_fullscreen_target_screen, m_last_windowed, m_minimized,
                 m_last_video_mode, monitor_vmode, flushed, updated, applied,
                 roundtrip, last_call, shot_pc, shot_width, shot_height, buffer,
                 shot_h, read_back, png, renderer, graphics_data, gl_inited,
                 g_displays, has_window, m_main, fault, deref_null, last_entry,
                 g_key_status, g_buffered_key_status, input_mode, input_mode_index,
                 input_mode_pad, gamepad_idx, key_fault, key_call, press, last_map,
                 mapped_button>>

(***************************************************************************)
(* Specification                                                           *)
(***************************************************************************)
\* The game thread starts one of its calls.
SimCall ==
  \/ VsyncEnter
  \/ SyncPathEnter
  \/ \E data \in DataValues, offset \in Offsets : SendChainEnter(data, offset)

\* The game thread continues the call it is in.
SimStep ==
  \/ VsyncWait \/ VsyncWoken \/ VsyncReturn
  \/ SyncPathFirstCheck \/ SyncPathCheck \/ SyncPathBlock \/ SyncPathWoken
  \/ SyncPathReturn
  \/ SendChainCheck \/ SendChainReject \/ SendChainWrite \/ SendChainPublish

\* The render thread continues the iteration of render() it is in.
RenderStep ==
  \/ PollEvents \/ ShouldAdvanceFrame
  \/ RenderFrameLock \/ RenderFrameWait \/ RenderFrameTimeout \/ RenderFrameTimedOut
  \/ RenderFrameWoken \/ RenderFrameTake \/ RenderFrameRender \/ RenderFrameLock2
  \/ RenderFrameClear
  \/ SwapBuffers \/ FrameDoneLock \/ FrameDone \/ UpdateFullscreen \/ ExitCheck

Next ==
  \/ SimCall \/ SimStep
  \/ LoopContinue \/ LoopStop \/ RenderStep
  \/ SpuriousWakeup

Spec == Init /\ [][Next]_vars

\* Both threads are scheduled: a call that has been started and an iteration of
\* render() that has been started keep taking their steps (a mutex that is free
\* again and again is eventually obtained; the timed wait's time elapses).  The
\* game thread need not start another call, Loop need not start another
\* iteration, and a spurious wakeup need not happen.  wait_for measures its
\* 50 ms from the start of the wait, so wakeups that find the predicate false
\* do not put the timeout off for ever.
LiveSpec ==
  Spec /\ SF_vars(SimStep) /\ SF_vars(RenderStep) /\ SF_vars(RenderFrameTimeout)

TypeOK ==
  /\ sync_mutex \in Threads \cup {Free}
  /\ dma_mutex \in Threads \cup {Free}
  /\ frame_idx \in 0..MaxFrameIdx
  /\ frame_idx_of_input_data \in 0..MaxFrameIdx
  /\ has_data_to_render \in BOOLEAN
  /\ last_input_data \in DataValues \cup {NoData}
  /\ last_input_offset \in Offsets
  /\ MasterExit \in {"RUNNING", "EXIT"}
  /\ consumed \in 0..MaxFrameIdx
  /\ presented \in 0..MaxFrameIdx

(***************************************************************************)
(* Target resolution: OpenGLRenderer::setup_frame, reached from            *)
(* OpenGLDisplay::render through render_game_frame and                     *)
(* OpenGLRenderer::render.  Only the render thread runs this code, so it   *)
(* is modelled as one atomic step per rendered frame.                      *)
(***************************************************************************)
\* Fbo::matches: the target is valid and has the given size and sample count.
FboMatches(fbo, w, h, msaa) ==
  fbo.valid /\ fbo.width = w /\ fbo.height = h /\ fbo.multisample_count = msaa

\* Fbo::clear: the target is destroyed.
FboClear(fbo) == [fbo EXCEPT !.valid = FALSE]

\* Variant of make_fbo: the target is always created single-sampled.
make_fbo_single_sampled(w, h, msaa) ==
  [valid |-> TRUE, is_window |-> FALSE, width |-> w, height |-> h,
   multisample_count |-> 1]

\* make_fbo (the depth/stencil attachment it is asked for is not modelled).
make_fbo(w, h, msaa) ==
  [valid |-> TRUE, is_window |-> FALSE, width |-> w, height |-> h,
   multisample_count |-> msaa]

\* Variant of WindowFb: only the size is updated.
WindowFbSizeOnly(fbo, s) ==
  [fbo EXCEPT !.width = s.window_framebuffer_width,
              !.height = s.window_framebuffer_height]

\* setup_frame: the window entry after the update from the settings.
WindowFb(fbo, s) ==
  [valid |-> TRUE, is_window |-> TRUE, width |-> s.window_framebuffer_width,
   height |-> s.window_framebuffer_height, multisample_count |-> 1]

\* setup_frame: window_resized.
WindowResized(st, s) ==
  \/ st.window.width # s.window_framebuffer_width
  \/ st.window.height # s.window_framebuffer_height

\* The Fbo render_fbo points to.
RenderFbo(st) ==
  IF st.render_fbo = "window" THEN st.window ELSE st.render_buffer

\* Variant of NeedsResolve: every call re-resolves.
NeedsResolveAlways(st, s) == TRUE

\* Variant of NeedsResolve: a resized window is not looked at.
NeedsResolveIgnoringResize(st, s) ==
  \/ st.render_fbo = NoFbo
  \/ ~FboMatches(RenderFbo(st), s.game_res_w, s.game_res_h, s.msaa_samples)

\* setup_frame: "see if the render FBO is still applicable"; st is the state
\* before the window entry is updated.
NeedsResolve(st, s) ==
  \/ st.render_fbo = NoFbo
  \/ WindowResized(st, s)
  \/ ~FboMatches(RenderFbo([st EXCEPT !.window = WindowFb(st.window, s)]),
                 s.game_res_w, s.game_res_h, s.msaa_samples)

\* Variant of ClearedResources: the old framebuffers are kept.
ClearedNothing(st) == st

\* Variant of ClearedResources: the resolve buffer is left alone.
ClearedRenderBufferOnly(st) ==
  [st EXCEPT !.render_buffer = FboClear(st.render_buffer)]

\* setup_frame: "clear old framebuffers".
ClearedResources(st) ==
  [st EXCEPT !.render_buffer = FboClear(st.render_buffer),
             !.resolve_buffer = FboClear(st.resolve_buffer)]

\* Variant of MsaaMatches: the sample counts are never compared.
MsaaMatchesAlways(fbo, s) == TRUE

\* setup_frame: msaa_matches.
MsaaMatches(fbo, s) == fbo.multisample_count = s.msaa_samples

\* setup_frame: the re-resolved state; st has the updated window entry.
Resolved(st, s) ==
  LET c == ClearedResources(st) IN
  IF FboMatches(c.window, s.game_res_w, s.game_res_h, s.msaa_samples)
  THEN [c EXCEPT !.render_fbo = "window"]
  ELSE [c EXCEPT !.render_buffer = make_fbo(s.game_res_w, s.game_res_h, s.msaa_samples),
                 !.render_fbo = "render_buffer",
                 !.resolve_buffer =
                    IF MsaaMatches(c.window, s) THEN c.resolve_buffer
                    ELSE make_fbo(s.game_res_w, s.game_res_h, 1)]

\* m_fbo_state after setup_frame(s).
SetupFrameState(st, s) ==
  LET w == [st EXCEPT !.window = WindowFb(st.window, s)] IN
  IF NeedsResolve(st, s) THEN Resolved(w, s) ELSE w

\* Number of make_fbo calls of a re-resolve.
MadeBy(st, s) ==
  LET w == [st EXCEPT !.window = WindowFb(st.window, s)] IN
  IF FboMatches(w.window, s.game_res_w, s.game_res_h, s.msaa_samples) THEN 0
  ELSE IF MsaaMatches(w.window, s) THEN 1 ELSE 2

\* Number of valid offscreen targets.
ValidOffscreen(st) ==
  (IF st.render_buffer.valid THEN 1 ELSE 0) + (IF st.resolve_buffer.valid THEN 1 ELSE 0)

\* make_fbo: result.multisampled.
Multisampled(fbo) == fbo.multisample_count > 1

\* Variant of ScreenshotSource: the pixels are always read from render_fbo.
ScreenshotSourceRenderFbo(st) == RenderFbo(st)

\* OpenGLRenderer::render: the Fbo a screenshot is read from.
ScreenshotSource(st) ==
  IF st.resolve_buffer.valid THEN st.resolve_buffer ELSE RenderFbo(st)

\* OpenGLDisplay::render: the game resolution handed to render_game_frame.
GameResolution(w, h) ==
  IF w <= 0 \/ h <= 0 THEN <<DefaultGameResW, DefaultGameResH>> ELSE <<w, h>>

\* render_game_frame: the RenderOptions built from its arguments, the
\* screenshot request of the debug gui and GL_MAX_SAMPLES (the fields
\* setup_frame reads).
RenderOptionsOf(game_width, game_height, window_fb_width, window_fb_height, msaa_samples, screenshot_flag, screenshot_width, screenshot_height, screenshot_samples, msaa_max) ==
  LET m == IF screenshot_flag THEN screenshot_samples ELSE msaa_samples IN
  [game_res_w |-> IF screenshot_flag THEN screenshot_width ELSE game_width,
   game_res_h |-> IF screenshot_flag THEN screenshot_height ELSE game_height,
   msaa_samples |-> IF m > msaa_max THEN msaa_max ELSE m,
   window_framebuffer_width |-> window_fb_width,
   window_framebuffer_height |-> window_fb_height,
   save_screenshot |-> screenshot_flag]

\* The RenderOptions render() can hand to OpenGLRenderer::render.
FrameOptions ==
  { RenderOptionsOf(GameResolution(w, h)[1], GameResolution(w, h)[2], fw, fh, m,
                    FALSE, 0, 0, 1, mm)
      : w \in ConfiguredRes, h \in ConfiguredRes, fw \in WindowSizes,
        fh \in WindowSizes, m \in SampleCounts, mm \in MsaaMaxValues }
  \cup
  { RenderOptionsOf(DefaultGameResW, DefaultGameResH, fw, fh, 1, TRUE, sw, sh, m, mm)
      : sw \in ConfiguredRes, sh \in ConfiguredRes, fw \in WindowSizes,
        fh \in WindowSizes, m \in SampleCounts, mm \in MsaaMaxValues }

\* OpenGLRenderer::setup_frame(s).  A failed assertion ends the process.
SetupFrame(s) ==
  /\ ~assert_failed
  /\ m_fbo_state' = SetupFrameState(m_fbo_state, s)
  /\ settings' = s
  /\ assert_failed' = ~(s.game_res_w > 0 /\ s.game_res_h > 0)
  /\ setup_log' =
       [resolved |-> NeedsResolve(m_fbo_state, s),
        made |-> IF NeedsResolve(m_fbo_state, s) THEN MadeBy(m_fbo_state, s) ELSE 0,
        destroyed |-> IF NeedsResolve(m_fbo_state, s)
                      THEN ValidOffscreen(m_fbo_state)
                             - ValidOffscreen(ClearedResources(m_fbo_state))
                      ELSE 0,
        had |-> ValidOffscreen(m_fbo_state),
        window_resized |-> WindowResized(m_fbo_state, s),
        matched |-> /\ m_fbo_state.render_fbo # NoFbo
                    /\ LET f == IF m_fbo_state.render_fbo = "window"
                                THEN WindowFb(m_fbo_state.window, s)
                                ELSE m_fbo_state.render_buffer
                       IN /\ f.valid
                          /\ f.width = s.game_res_w
                          /\ f.height = s.game_res_h
                          /\ f.multisample_count = s.msaa_samples,
        offscreen |-> m_fbo_state.render_fbo = "render_buffer"]
  /\ UNCHANGED <<sync_mutex, dma_mutex, frame_idx, frame_idx_of_input_data,
                 has_data_to_render, last_input_data, last_input_offset, MasterExit,
                 window_should_close, rpc, got_chain, spc, arg_data, arg_offset,
                 init_frame, sim_ret, slot_read, consumed, presented, found_pending,
                 cleared_since, synced, display_created, m_fullscreen_mode,
                 m_fullscreen_target_mode, m_last_fullscreen_mode, m_fullscreen_screen,
                 m_fullscreen_target_screen, m_last_windowed, m_minimized,
                 m_last_video_mode, monitor_vmode, flushed, updated, applied,
                 roundtrip, last_call, shot_pc, shot_width, shot_height, buffer,
                 shot_h, read_back, png, renderer, graphics_data, gl_inited,
                 g_displays, has_window, m_main, fault, deref_null, last_entry,
                 g_key_status, g_buffered_key_status, input_mode, input_mode_index,
                 input_mode_pad, gamepad_idx, key_fault, key_call, press, last_map,
                 mapped_button>>

\* A frame is rendered with some options render() can produce.
RenderWithOptions == \E s \in FrameOptions : SetupFrame(s)

FboNext == RenderWithOptions

FboSpec == Init /\ [][FboNext]_vars

FboTypeOK ==
  /\ m_fbo_state.render_fbo \in {NoFbo, "window", "render_buffer"}
  /\ setup_log.made \in 0..2
  /\ setup_log.destroyed \in 0..2
  /\ setup_log.had \in 0..2
  /\ assert_failed \in BOOLEAN

(***************************************************************************)
(* Display state machine: GraphicsDisplay (Display.h) and OpenGLDisplay.    *)
(* Every step is a member function or a GLFW callback run to completion.   *)
(***************************************************************************)
\* OpenGLDisplay::get_monitor: an index out of bounds means the primary monitor.
get_monitor(index) == IF index \in Monitors THEN index ELSE 0

\* glfwGetMonitorWorkarea of a monitor.
MonitorWorkarea(i) == [x |-> 8 * i, y |-> 0, width |-> 8, height |-> 6]

\* glfwGetMonitorPos of a monitor.
MonitorPos(i) == [x |-> 8 * i, y |-> 0]

\* GraphicsDisplay::windowed.
windowed == m_fullscreen_mode = "Windowed"

\* GraphicsDisplay::fullscreen_pending.
BaseFullscreenPending ==
  \/ m_fullscreen_mode # m_fullscreen_target_mode
  \/ m_fullscreen_screen # m_fullscreen_target_screen

\* Variant of fullscreen_pending: the monitor's video mode is not looked at.
fullscreen_pending_mode_only == BaseFullscreenPending

\* OpenGLDisplay::fullscreen_pending.
fullscreen_pending ==
  LET vmode == monitor_vmode[get_monitor(m_fullscreen_screen)] IN
  \/ BaseFullscreenPending
  \/ vmode.width # m_last_video_mode.width
  \/ vmode.height # m_last_video_mode.height
  \/ vmode.refreshRate # m_last_video_mode.refreshRate

\* Variant of update_fullscreen: the window is never recentred.
update_fullscreen_keep_position(mode, screen) == m_last_windowed

\* OpenGLDisplay::update_fullscreen: the remembered windowed geometry afterwards.
update_fullscreen(mode, screen) ==
  IF mode # "Windowed" \/ m_last_fullscreen_mode' = "Windowed"
  THEN m_last_windowed
  ELSE LET area == MonitorWorkarea(get_monitor(screen)) IN
       [m_last_windowed EXCEPT
          !.xpos = area.x + (area.width \div 2) - (m_last_windowed.width \div 2),
          !.ypos = area.y + (area.height \div 2) - (m_last_windowed.height \div 2)]

\* OpenGLDisplay::update_fullscreen: the position and size it passes to
\* glfwSetWindowMonitor (the build without _WIN32).
applied_geometry(mode, screen) ==
  LET vmode == monitor_vmode[get_monitor(screen)]
      pos == MonitorPos(get_monitor(screen)) IN
  CASE mode = "Windowed" -> update_fullscreen(mode, screen)
    [] mode = "Fullscreen" ->
         [xpos |-> 0, ypos |-> 0, width |-> vmode.width, height |-> vmode.height]
    [] OTHER ->
         [xpos |-> pos.x, ypos |-> pos.y, width |-> vmode.width, height |-> vmode.height]

\* Variant of flushed_video_mode: the monitor of the screen that was current
\* before the flush is asked.
flushed_video_mode_of_old_screen == monitor_vmode[get_monitor(m_fullscreen_screen)]

\* OpenGLDisplay::fullscreen_flush: the video mode it records is the one of the
\* monitor of the screen index just made current.
flushed_video_mode == monitor_vmode[get_monitor(m_fullscreen_target_screen)]

\* History of a step that is not a flush: a finished round trip is forgotten and
\* a round trip under way is abandoned when the remembered geometry changes.
NoFlush ==
  /\ flushed' = FALSE
  /\ updated' = FALSE
  /\ applied' = NoGeometry
  /\ roundtrip' = IF roundtrip.stage = "back" \/ m_last_windowed' # m_last_windowed
                  THEN NoRoundtrip ELSE roundtrip

\* History of a flush: leaving Windowed for Fullscreen starts a round trip, the
\* next flush ends it if it is the one back from Fullscreen to Windowed.
RoundtripAfterFlush ==
  CASE m_fullscreen_mode = "Windowed" /\ m_fullscreen_target_mode = "Fullscreen" ->
         [stage |-> "fullscreen", origin |-> m_last_windowed]
    [] /\ roundtrip.stage = "fullscreen"
       /\ m_fullscreen_mode = "Fullscreen" /\ m_fullscreen_target_mode = "Windowed" ->
         [roundtrip EXCEPT !.stage = "back"]
    [] OTHER -> NoRoundtrip

\* The OpenGLDisplay constructor reads the window's position and size.
CreateDisplay(pos, size) ==
  /\ ~display_created
  /\ display_created' = TRUE
  /\ m_last_windowed' = [xpos |-> pos[1], ypos |-> pos[2],
                         width |-> size[1], height |-> size[2]]
  /\ UNCHANGED <<sync_mutex, dma_mutex, frame_idx, frame_idx_of_input_data,
                 has_data_to_render, last_input_data, last_input_offset, MasterExit,
                 window_should_close, rpc, got_chain, spc, arg_data, arg_offset,
                 init_frame, sim_ret, slot_read, consumed, presented, found_pending,
                 cleared_since, synced, m_fbo_state, settings, assert_failed,
                 setup_log, m_fullscreen_mode, m_fullscreen_target_mode,
                 m_last_fullscreen_mode, m_fullscreen_screen,
                 m_fullscreen_target_screen, m_minimized, m_last_video_mode,
                 monitor_vmode, shot_pc, shot_width, shot_height, buffer, shot_h,
                 read_back, png, renderer, graphics_data, gl_inited, g_displays,
                 has_window, m_main, fault, deref_null, last_entry, g_key_status,
                 g_buffered_key_status, input_mode, input_mode_index, input_mode_pad,
                 gamepad_idx, key_fault, key_call, press, last_map, mapped_button>>
  /\ NoFlush

\* Variant of set_fullscreen: the mode is applied at once.
set_fullscreen_immediately(mode, screen) ==
  /\ display_created
  /\ m_fullscreen_target_mode' = mode
  /\ m_fullscreen_target_screen' = screen
  /\ m_fullscreen_mode' = mode
  /\ UNCHANGED <<sync_mutex, dma_mutex, frame_idx, frame_idx_of_input_data,
                 has_data_to_render, last_input_data, last_input_offset, MasterExit,
                 window_should_close, rpc, got_chain, spc, arg_data, arg_offset,
                 init_frame, sim_ret, slot_read, consumed, presented, found_pending,
                 cleared_since, synced, m_fbo_state, settings, assert_failed,
                 setup_log, display_created, m_last_fullscreen_mode,
                 m_fullscreen_screen, m_last_windowed, m_minimized, m_last_video_mode,
                 monitor_vmode, shot_pc, shot_width, shot_height, buffer, shot_h,
                 read_back, png, renderer, graphics_data, gl_inited, g_displays,
                 has_window, m_main, fault, deref_null, last_entry, g_key_status,
                 g_buffered_key_status, input_mode, input_mode_index, input_mode_pad,
                 gamepad_idx, key_fault, key_call, press, last_map, mapped_button>>
  /\ NoFlush

\* GraphicsDisplay::set_fullscreen.
set_fullscreen(mode, screen) ==
  /\ display_created
  /\ m_fullscreen_target_mode' = mode
  /\ m_fullscreen_target_screen' = screen
  /\ UNCHANGED <<sync_mutex, dma_mutex, frame_idx, frame_idx_of_input_data,
                 has_data_to_render, last_input_data, last_input_offset, MasterExit,
                 window_should_close, rpc, got_chain, spc, arg_data, arg_offset,
                 init_frame, sim_ret, slot_read, consumed, presented, found_pending,
                 cleared_since, synced, m_fbo_state, settings, assert_failed,
                 setup_log, display_created, m_fullscreen_mode, m_last_fullscreen_mode,
                 m_fullscreen_screen, m_last_windowed, m_minimized, m_last_video_mode,
                 monitor_vmode, shot_pc, shot_width, shot_height, buffer, shot_h,
                 read_back, png, renderer, graphics_data, gl_inited, g_displays,
                 has_window, m_main, fault, deref_null, last_entry, g_key_status,
                 g_buffered_key_status, input_mode, input_mode_index, input_mode_pad,
                 gamepad_idx, key_fault, key_call, press, last_map, mapped_button>>
  /\ NoFlush

\* OpenGLDisplay::on_window_pos.
on_window_pos(xpos, ypos) ==
  /\ display_created
  /\ m_last_windowed' =
       IF m_fullscreen_target_mode = "Windowed"
       THEN [m_last_windowed EXCEPT !.xpos = xpos, !.ypos = ypos]
       ELSE m_last_windowed
  /\ UNCHANGED <<sync_mutex, dma_mutex, frame_idx, frame_idx_of_input_data,
                 has_data_to_render, last_input_data, last_input_offset, MasterExit,
                 window_should_close, rpc, got_chain, spc, arg_data, arg_offset,
                 init_frame, sim_ret, slot_read, consumed, presented, found_pending,
                 cleared_since, synced, m_fbo_state, settings, assert_failed,
                 setup_log, display_created, m_fullscreen_mode,
                 m_fullscreen_target_mode, m_last_fullscreen_mode, m_fullscreen_screen,
                 m_fullscreen_target_screen, m_minimized, m_last_video_mode,
                 monitor_vmode, shot_pc, shot_width, shot_height, buffer, shot_h,
                 read_back, png, renderer, graphics_data, gl_inited, g_displays,
                 has_window, m_main, fault, deref_null, last_entry, g_key_status,
                 g_buffered_key_status, input_mode, input_mode_index, input_mode_pad,
                 gamepad_idx, key_fault, key_call, press, last_map, mapped_button>>
  /\ NoFlush

\* Variant of on_window_size: the target mode is not looked at.
on_window_size_unguarded(width, height) ==
  /\ display_created
  /\ m_last_windowed' = [m_last_windowed EXCEPT !.width = width, !.height = height]
  /\ UNCHANGED <<sync_mutex, dma_mutex, frame_idx, frame_idx_of_input_data,
                 has_data_to_render, last_input_data, last_input_offset, MasterExit,
                 window_should_close, rpc, got_chain, spc, arg_data, arg_offset,
                 init_frame, sim_ret, slot_read, consumed, presented, found_pending,
                 cleared_since, synced, m_fbo_state, settings, assert_failed,
                 setup_log, display_created, m_fullscreen_mode,
                 m_fullscreen_target_mode, m_last_fullscreen_mode, m_fullscreen_screen,
                 m_fullscreen_target_screen, m_minimized, m_last_video_mode,
                 monitor_vmode, shot_pc, shot_width, shot_height, buffer, shot_h,
                 read_back, png, renderer, graphics_data, gl_inited, g_displays,
                 has_window, m_main, fault, deref_null, last_entry, g_key_status,
                 g_buffered_key_status, input_mode, input_mode_index, input_mode_pad,
                 gamepad_idx, key_fault, key_call, press, last_map, mapped_button>>
  /\ NoFlush

\* OpenGLDisplay::on_window_size.
on_window_size(width, height) ==
  /\ display_created
  /\ m_last_windowed' =
       IF m_fullscreen_target_mode = "Windowed"
       THEN [m_last_windowed EXCEPT !.width = width, !.height = height]
       ELSE m_last_windowed
  /\ UNCHANGED <<sync_mutex, dma_mutex, frame_idx, frame_idx_of_input_data,
                 has_data_to_render, last_input_data, last_input_offset, MasterExit,
                 window_should_close, rpc, got_chain, spc, arg_data, arg_offset,
                 init_frame, sim_ret, slot_read, consumed, presented, found_pending,
                 cleared_since, synced, m_fbo_state, settings, assert_failed,
                 setup_log, display_created, m_fullscreen_mode,
                 m_fullscreen_target_mode, m_last_fullscreen_mode, m_fullscreen_screen,
                 m_fullscreen_target_screen, m_minimized, m_last_video_mode,
                 monitor_vmode, shot_pc, shot_width, shot_height, buffer, shot_h,
                 read_back, png, renderer, graphics_data, gl_inited, g_displays,
                 has_window, m_main, fault, deref_null, last_entry, g_key_status,
                 g_buffered_key_status, input_mode, input_mode_index, input_mode_pad,
                 gamepad_idx, key_fault, key_call, press, last_map, mapped_button>>
  /\ NoFlush

\* OpenGLDisplay::on_iconify.
on_iconify(iconified) ==
  /\ display_created
  /\ m_minimized' = iconified
  /\ UNCHANGED <<sync_mutex, dma_mutex, frame_idx, frame_idx_of_input_data,
                 has_data_to_render, last_input_data, last_input_offset, MasterExit,
                 window_should_close, rpc, got_chain, spc, arg_data, arg_offset,
                 init_frame, sim_ret, slot_read, consumed, presented, found_pending,
                 cleared_since, synced, m_fbo_state, settings, assert_failed,
                 setup_log, display_created, m_fullscreen_mode,
                 m_fullscreen_target_mode, m_last_fullscreen_mode, m_fullscreen_screen,
                 m_fullscreen_target_screen, m_last_windowed, m_last_video_mode,
                 monitor_vmode, shot_pc, shot_width, shot_height, buffer, shot_h,
                 read_back, png, renderer, graphics_data, gl_inited, g_displays,
                 has_window, m_main, fault, deref_null, last_entry, g_key_status,
                 g_buffered_key_status, input_mode, input_mode_index, input_mode_pad,
                 gamepad_idx, key_fault, key_call, press, last_map, mapped_button>>
  /\ NoFlush

\* OpenGLDisplay::set_size.
set_size(width, height) ==
  /\ display_created
  /\ m_last_windowed' =
       IF windowed
       THEN [m_last_windowed EXCEPT !.width = width, !.height = height]
       ELSE m_last_windowed
  /\ UNCHANGED <<sync_mutex, dma_mutex, frame_idx, frame_idx_of_input_data,
                 has_data_to_render, last_input_data, last_input_offset, MasterExit,
                 window_should_close, rpc, got_chain, spc, arg_data, arg_offset,
                 init_frame, sim_ret, slot_read, consumed, presented, found_pending,
                 cleared_since, synced, m_fbo_state, settings, assert_failed,
                 setup_log, display_created, m_fullscreen_mode,
                 m_fullscreen_target_mode, m_last_fullscreen_mode, m_fullscreen_screen,
                 m_fullscreen_target_screen, m_minimized, m_last_video_mode,
                 monitor_vmode, shot_pc, shot_width, shot_height, buffer, shot_h,
                 read_back, png, renderer, graphics_data, gl_inited, g_displays,
                 has_window, m_main, fault, deref_null, last_entry, g_key_status,
                 g_buffered_key_status, input_mode, input_mode_index, input_mode_pad,
                 gamepad_idx, key_fault, key_call, press, last_map, mapped_button>>
  /\ NoFlush

\* The video mode of a monitor changes (resolution or refresh rate).
MonitorChange(i, vmode) ==
  /\ display_created
  /\ monitor_vmode[i] # vmode
  /\ monitor_vmode' = [monitor_vmode EXCEPT ![i] = vmode]
  /\ UNCHANGED <<sync_mutex, dma_mutex, frame_idx, frame_idx_of_input_data,
                 has_data_to_render, last_input_data, last_input_offset, MasterExit,
                 window_should_close, rpc, got_chain, spc, arg_data, arg_offset,
                 init_frame, sim_ret, slot_read, consumed, presented, found_pending,
                 cleared_since, synced, m_fbo_state, settings, assert_failed,
                 setup_log, display_created, m_fullscreen_mode,
                 m_fullscreen_target_mode, m_last_fullscreen_mode, m_fullscreen_screen,
                 m_fullscreen_target_screen, m_last_windowed, m_minimized,
                 m_last_video_mode, shot_pc, shot_width, shot_height, buffer, shot_h,
                 read_back, png, renderer, graphics_data, gl_inited, g_displays,
                 has_window, m_main, fault, deref_null, last_entry, g_key_status,
                 g_buffered_key_status, input_mode, input_mode_index, input_mode_pad,
                 gamepad_idx, key_fault, key_call, press, last_map, mapped_button>>
  /\ NoFlush

\* Variant of should_flush: only the flush of a new display is made.
should_flush_first_only ==
  fullscreen_pending /\ ~m_minimized /\ m_fullscreen_mode = InvalidMode

\* Variant of should_flush: the minimized state is not looked at.
should_flush_when_minimized == fullscreen_pending

\* OpenGLDisplay::render: if (fullscreen_pending() && !minimized()).
should_flush == fullscreen_pending /\ ~m_minimized

\* OpenGLDisplay::render, "update fullscreen mode, if requested":
\* update_last_fullscreen_mode, then fullscreen_flush if a change is pending
\* and the window is not minimized.
DisplayUpdate ==
  /\ display_created
  /\ m_last_fullscreen_mode' = m_fullscreen_mode
  /\ IF should_flush
     THEN /\ m_last_windowed' =
               update_fullscreen(m_fullscreen_target_mode, m_fullscreen_target_screen)
          /\ m_fullscreen_mode' = m_fullscreen_target_mode
          /\ m_fullscreen_screen' = m_fullscreen_target_screen
          /\ m_last_video_mode' = flushed_video_mode
          /\ flushed' = TRUE
          /\ applied' =
               applied_geometry(m_fullscreen_target_mode, m_fullscreen_target_screen)
          /\ roundtrip' = RoundtripAfterFlush
     ELSE /\ UNCHANGED <<m_last_windowed, m_fullscreen_mode, m_fullscreen_screen,
                         m_last_video_mode>>
          /\ flushed' = FALSE
          /\ applied' = NoGeometry
          /\ roundtrip' = IF roundtrip.stage = "back" THEN NoRoundtrip ELSE roundtrip
  /\ updated' = TRUE
  /\ UNCHANGED <<sync_mutex, dma_mutex, frame_idx, frame_idx_of_input_data,
                 has_data_to_render, last_input_data, last_input_offset, MasterExit,
                 window_should_close, rpc, got_chain, spc, arg_data, arg_offset,
                 init_frame, sim_ret, slot_read, consumed, presented, found_pending,
                 cleared_since, synced, m_fbo_state, settings, assert_failed,
                 setup_log, display_created, m_fullscreen_target_mode,
                 m_fullscreen_target_screen, m_minimized, monitor_vmode, shot_pc,
                 shot_width, shot_height, buffer, shot_h, read_back, png, renderer,
                 graphics_data, gl_inited, g_displays, has_window, m_main, fault,
                 deref_null, last_entry, g_key_status, g_buffered_key_status,
                 input_mode, input_mode_index, input_mode_pad, gamepad_idx, key_fault,
                 key_call, press, last_map, mapped_button>>

\* The display actions leave last_call open: DisplayNext does not keep the
\* history of calls, CallNext records which of on_window_pos, on_window_size and
\* set_size, if any, each step ran.
DisplayNext ==
  /\ \/ \E pos \in WindowPositions, size \in WindowedSizes : CreateDisplay(pos, size)
     \/ \E mode \in DisplayModes, screen \in TargetScreens : set_fullscreen(mode, screen)
     \/ \E pos \in WindowPositions : on_window_pos(pos[1], pos[2])
     \/ \E size \in WindowedSizes : on_window_size(size[1], size[2])
     \/ \E iconified \in BOOLEAN : on_iconify(iconified)
     \/ \E size \in WindowedSizes : set_size(size[1], size[2])
     \/ \E i \in Monitors, vmode \in VideoModes : MonitorChange(i, vmode)
     \/ DisplayUpdate
  /\ UNCHANGED last_call

CallNext ==
  \/ /\ \E pos \in WindowPositions, size \in WindowedSizes : CreateDisplay(pos, size)
     /\ last_call' = "other"
  \/ /\ \E mode \in DisplayModes, screen \in TargetScreens : set_fullscreen(mode, screen)
     /\ last_call' = "other"
  \/ /\ \E pos \in WindowPositions : on_window_pos(pos[1], pos[2])
     /\ last_call' = "on_window_pos"
  \/ /\ \E size \in WindowedSizes : on_window_size(size[1], size[2])
     /\ last_call' = "on_window_size"
  \/ /\ \E iconified \in BOOLEAN : on_iconify(iconified)
     /\ last_call' = "other"
  \/ /\ \E size \in WindowedSizes : set_size(size[1], size[2])
     /\ last_call' = "set_size"
  \/ /\ \E i \in Monitors, vmode \in VideoModes : MonitorChange(i, vmode)
     /\ last_call' = "other"
  \/ /\ DisplayUpdate
     /\ last_call' = "other"

CallSpec == Init /\ [][CallNext]_vars

DisplaySpec == Init /\ [][DisplayNext]_vars

\* Graphics::Loop keeps calling render(), so render()'s fullscreen block runs
\* again and again; the callbacks and setters need not be called.
DisplayLiveSpec == DisplaySpec /\ WF_vars(DisplayUpdate /\ UNCHANGED last_call)

DisplayTypeOK ==
  /\ m_fullscreen_mode \in DisplayModes \cup {InvalidMode}
  /\ m_fullscreen_target_mode \in DisplayModes
  /\ m_last_fullscreen_mode \in DisplayModes \cup {InvalidMode}
  /\ m_fullscreen_screen \in TargetScreens \cup {-1}
  /\ m_fullscreen_target_screen \in TargetScreens \cup {-1}
  /\ m_last_video_mode \in VideoModes \cup {ZeroVideoMode}
  /\ monitor_vmode \in [Monitors -> VideoModes]

(***************************************************************************)
(* OpenGLRenderer::finish_screenshot.  The buffer is a sequence; the pixel   *)
(* buffer[row * width + col] of the code is element row * width + col + 1.  *)
(***************************************************************************)
\* Bitwise or of two values of n bits.
RECURSIVE BitOr(_, _, _)
BitOr(a, b, n) ==
  IF n = 0 THEN 0
  ELSE (IF a % 2 = 1 \/ b % 2 = 1 THEN 1 ELSE 0) + 2 * BitOr(a \div 2, b \div 2, n - 1)

\* px |= 0xff000000.
SetAlpha(px) == [top |-> BitOr(px.top, AlphaMaskTop, 8), low |-> BitOr(px.low, 0, 24)]

\* Variant of FlipRows: the loop runs over every row.
FlipRowsAll(rows) == rows

\* The bound of the flip loop: for (int h = 0; h < height / 2; h++).
FlipRows(rows) == rows \div 2

\* for (int w = 0; w < width; w++) std::swap(buffer[h * width + w],
\* buffer[(height - h - 1) * width + w]).
SwapRows(buf, row) ==
  [i \in 1..Len(buf) |->
     LET r == (i - 1) \div shot_width
         w == (i - 1) % shot_width IN
     IF r = row THEN buf[(shot_height - row - 1) * shot_width + w + 1]
     ELSE IF r = shot_height - row - 1 THEN buf[row * shot_width + w + 1]
     ELSE buf[i]]

\* The buffers glReadPixels can fill for a given size.
ReadBacks(w, rows) == [1..(w * rows) -> PixelValues]

\* std::vector<u32> buffer(width * height); glReadPixels(...).
ReadPixels(w, rows, pixels) ==
  /\ shot_pc = "idle"
  /\ shot_width' = w
  /\ shot_height' = rows
  /\ buffer' = pixels
  /\ read_back' = pixels
  /\ shot_h' = 0
  /\ shot_pc' = "flip"
  /\ UNCHANGED <<sync_mutex, dma_mutex, frame_idx, frame_idx_of_input_data,
                 has_data_to_render, last_input_data, last_input_offset, MasterExit,
                 window_should_close, rpc, got_chain, spc, arg_data, arg_offset,
                 init_frame, sim_ret, slot_read, consumed, presented, found_pending,
                 cleared_since, synced, m_fbo_state, settings, assert_failed,
                 setup_log, display_created, m_fullscreen_mode,
                 m_fullscreen_target_mode, m_last_fullscreen_mode, m_fullscreen_screen,
                 m_fullscreen_target_screen, m_last_windowed, m_minimized,
                 m_last_video_mode, monitor_vmode, flushed, updated, applied,
                 roundtrip, last_call, png, renderer, graphics_data, gl_inited,
                 g_displays, has_window, m_main, fault, deref_null, last_entry,
                 g_key_status, g_buffered_key_status, input_mode, input_mode_index,
                 input_mode_pad, gamepad_idx, key_fault, key_call, press, last_map,
                 mapped_button>>

\* One iteration of the flip loop.
FlipRow ==
  /\ shot_pc = "flip"
  /\ shot_h < FlipRows(shot_height)
  /\ buffer' = SwapRows(buffer, shot_h)
  /\ shot_h' = shot_h + 1
  /\ UNCHANGED <<sync_mutex, dma_mutex, frame_idx, frame_idx_of_input_data,
                 has_data_to_render, last_input_data, last_input_offset, MasterExit,
                 window_should_close, rpc, got_chain, spc, arg_data, arg_offset,
                 init_frame, sim_ret, slot_read, consumed, presented, found_pending,
                 cleared_since, synced, m_fbo_state, settings, assert_failed,
                 setup_log, display_created, m_fullscreen_mode,
                 m_fullscreen_target_mode, m_last_fullscreen_mode, m_fullscreen_screen,
                 m_fullscreen_target_screen, m_last_windowed, m_minimized,
                 m_last_video_mode, monitor_vmode, flushed, updated, applied,
                 roundtrip, last_call, shot_pc, shot_width, shot_height, read_back,
                 png, renderer, graphics_data, gl_inited, g_displays, has_window,
                 m_main, fault, deref_null, last_entry, g_key_status,
                 g_buffered_key_status, input_mode, input_mode_index, input_mode_pad,
                 gamepad_idx, key_fault, key_call, press, last_map, mapped_button>>

\* The flip loop ends.
FlipEnd ==
  /\ shot_pc = "flip"
  /\ ~(shot_h < FlipRows(shot_height))
  /\ shot_pc' = "alpha"
  /\ UNCHANGED <<sync_mutex, dma_mutex, frame_idx, frame_idx_of_input_data,
                 has_data_to_render, last_input_data, last_input_offset, MasterExit,
                 window_should_close, rpc, got_chain, spc, arg_data, arg_offset,
                 init_frame, sim_ret, slot_read, consumed, presented, found_pending,
                 cleared_since, synced, m_fbo_state, settings, assert_failed,
                 setup_log, display_created, m_fullscreen_mode,
                 m_fullscreen_target_mode, m_last_fullscreen_mode, m_fullscreen_screen,
                 m_fullscreen_target_screen, m_last_windowed, m_minimized,
                 m_last_video_mode, monitor_vmode, flushed, updated, applied,
                 roundtrip, last_call, shot_width, shot_height, buffer, shot_h,
                 read_back, png, renderer, graphics_data, gl_inited, g_displays,
                 has_window, m_main, fault, deref_null, last_entry, g_key_status,
                 g_buffered_key_status, input_mode, input_mode_index, input_mode_pad,
                 gamepad_idx, key_fault, key_call, press, last_map, mapped_button>>

\* for (auto& px : buffer) px |= 0xff000000.
SetAlphaLoop ==
  /\ shot_pc = "alpha"
  /\ buffer' = [i \in 1..Len(buffer) |-> SetAlpha(buffer[i])]
  /\ shot_pc' = "write"
  /\ UNCHANGED <<sync_mutex, dma_mutex, frame_idx, frame_idx_of_input_data,
                 has_data_to_render, last_input_data, last_input_offset, MasterExit,
                 window_should_close, rpc, got_chain, spc, arg_data, arg_offset,
                 init_frame, sim_ret, slot_read, consumed, presented, found_pending,
                 cleared_since, synced, m_fbo_state, settings, assert_failed,
                 setup_log, display_created, m_fullscreen_mode,
                 m_fullscreen_target_mode, m_last_fullscreen_mode, m_fullscreen_screen,
                 m_fullscreen_target_screen, m_last_windowed, m_minimized,
                 m_last_video_mode, monitor_vmode, flushed, updated, applied,
                 roundtrip, last_call, shot_width, shot_height, shot_h, read_back, png,
                 renderer, graphics_data, gl_inited, g_displays, has_window, m_main,
                 fault, deref_null, last_entry, g_key_status, g_buffered_key_status,
                 input_mode, input_mode_index, input_mode_pad, gamepad_idx, key_fault,
                 key_call, press, last_map, mapped_button>>

\* file_util::write_rgba_png(output_name, buffer.data(), width, height).
WritePng ==
  /\ shot_pc = "write"
  /\ png' = buffer
  /\ shot_pc' = "done"
  /\ UNCHANGED <<sync_mutex, dma_mutex, frame_idx, frame_idx_of_input_data,
                 has_data_to_render, last_input_data, last_input_offset, MasterExit,
                 window_should_close, rpc, got_chain, spc, arg_data, arg_offset,
                 init_frame, sim_ret, slot_read, consumed, presented, found_pending,
                 cleared_since, synced, m_fbo_state, settings, assert_failed,
                 setup_log, display_created, m_fullscreen_mode,
                 m_fullscreen_target_mode, m_last_fullscreen_mode, m_fullscreen_screen,
                 m_fullscreen_target_screen, m_last_windowed, m_minimized,
                 m_last_video_mode, monitor_vmode, flushed, updated, applied,
                 roundtrip, last_call, shot_width, shot_height, buffer, shot_h,
                 read_back, renderer, graphics_data, gl_inited, g_displays, has_window,
                 m_main, fault, deref_null, last_entry, g_key_status,
                 g_buffered_key_status, input_mode, input_mode_index, input_mode_pad,
                 gamepad_idx, key_fault, key_call, press, last_map, mapped_button>>

ScreenshotNext ==
  \/ \E w \in 1..MaxShotWidth, rows \in 1..MaxShotHeight :
       \E pixels \in ReadBacks(w, rows) : ReadPixels(w, rows, pixels)
  \/ FlipRow
  \/ FlipEnd
  \/ SetAlphaLoop
  \/ WritePng

ScreenshotSpec == Init /\ [][ScreenshotNext]_vars

(***************************************************************************)
(* Properties of the frame channel                                         *)
(***************************************************************************)
\* C1: a gl_send_chain call that finds has_data_to_render true goes to the
\* rejecting return and, from its check to its return, leaves the flag true, the
\* stored input data and offset as they were, both frame indices unchanged and
\* the render thread's wait un-notified.
RejectedSendChainHasNoEffect ==
  [][ (((spc = "sc_check" /\ has_data_to_render) \/ spc = "sc_reject") /\ spc' # spc)
        => /\ spc' = (IF spc = "sc_check" THEN "sc_reject" ELSE "idle")
           /\ has_data_to_render /\ has_data_to_render'
           /\ UNCHANGED <<last_input_data, last_input_offset, frame_idx,
                          frame_idx_of_input_data, rpc>> ]_vars

\* A second gl_send_chain is being rejected while a chain is pending.
RejectedSendChainReached ==
  spc = "sc_reject" /\ has_data_to_render /\ last_input_data # NoData

\* C2: while ogl_renderer.render reads the published chain, the flag is still
\* true and the game thread is not inside the writing part of gl_send_chain
\* (set_input_data up to the publication).
RenderReadNeverOverlapsWrite ==
  rpc = "rg_render" => (has_data_to_render /\ spc \notin {"sc_write", "sc_publish"})

\* The render thread is reading while a gl_send_chain call is under way.
SendChainDuringRenderReached ==
  rpc = "rg_render" /\ spc = "sc_check"

\* C3: the flag goes from true to false only when the pending chain has been
\* read, and a render_game_frame call whose wait returned no data does not
\* change the flag.
PublishedChainReadBeforeCleared ==
  [][ /\ (has_data_to_render /\ ~has_data_to_render') => slot_read
      /\ (rpc = "rg_clear" /\ ~got_chain /\ rpc' # rpc) => UNCHANGED has_data_to_render
    ]_vars

\* C4: gl_sync_path returns only with the flag false; a call that found the flag
\* true returns only after render_game_frame has cleared it; a call that finds
\* the flag false returns at once; and a gl_send_chain that follows a completed
\* gl_sync_path is never rejected.
SyncPathBackpressure ==
  /\ [](spc = "sp_ret" => (~has_data_to_render /\ (found_pending => cleared_since)))
  /\ [](synced => spc # "sc_reject")
  /\ [][(spc = "sp_first" /\ ~has_data_to_render /\ spc' # spc) => spc' = "sp_ret"]_vars

\* gl_sync_path returns after having waited for the render thread to clear.
SyncPathWaitedReached ==
  spc = "sp_ret" /\ found_pending /\ cleared_since

\* C5 as stated: at the end of every render() iteration the frame index equals
\* the number of chains consumed so far.
FrameIdxCountsConsumedFrames ==
  rpc = "loop" => frame_idx = consumed

\* C5 as amended: frame_idx counts the presented frames (one increment per
\* render() iteration, after the buffer swap), whether or not the iteration
\* consumed a chain; the consumed chains never outnumber it.
FrameIdxCountsPresentedFrames ==
  /\ frame_idx = presented - (IF rpc \in {"fi_lock", "fi_inc"} THEN 1 ELSE 0)
  /\ rpc \in {"loop", "stopped"} => consumed <= frame_idx

\* Two frames were presented and only one chain was consumed.
IdleIterationReached ==
  rpc = "loop" /\ frame_idx = 2 /\ consumed = 1

\* C6: at every read and write of has_data_to_render the accessing thread holds
\* dma_mutex.
FlagAccessedUnderDmaMutex ==
  /\ spc \in {"sp_first", "sp_check"} => dma_mutex = "sim"
  /\ spc \in {"sc_check", "sc_publish"} => dma_mutex = "sim"
  /\ rpc \in {"rg_wait", "rg_clear"} => dma_mutex = "render"

(***************************************************************************)
(* Shutdown and stalls                                                     *)
(***************************************************************************)
VsyncPositions == {"vs_check", "vs_blocked", "vs_woken"}
RenderWaitPositions == {"rg_wait", "rg_blocked", "rg_woken", "rg_timedout"}

ExitUnblocksEveryWaiter ==
  /\ [][(MasterExit = "EXIT" /\ spc \in {"vs_check", "sp_check"} /\ spc' # spc)
          => spc' \in {"vs_ret", "sp_ret"}]_vars
  /\ [](~(MasterExit = "EXIT" /\ spc = "sp_blocked" /\ rpc = "stopped"))

\* C9: gl_vsync reads its baseline from frame_idx_of_input_data at entry and
\* keeps it; at its return it holds sync_mutex, MasterExit is not RUNNING or
\* frame_idx has passed the baseline, and the value returned is frame_idx mod 2.
VsyncWaitsForFrameAfterBaseline ==
  /\ [](spc = "vs_ret" => /\ sync_mutex = "sim"
                          /\ (MasterExit # "RUNNING" \/ frame_idx > init_frame)
                          /\ sim_ret = frame_idx % 2)
  /\ [][(spc = "idle" /\ spc' = "vs_check") => init_frame' = frame_idx_of_input_data]_vars
  /\ [][(spc \in VsyncPositions /\ spc' \in VsyncPositions) => init_frame' = init_frame]_vars

\* gl_vsync returns the odd parity of the first frame after its baseline.
VsyncReturnedNextFrameReached ==
  spc = "vs_ret" /\ MasterExit = "RUNNING" /\ init_frame = 0 /\ frame_idx = 1 /\ sim_ret = 1

\* C10: a timed-out wait that finds no chain goes on without rendering, and a
\* render thread inside render_game_frame's wait always completes the iteration
\* of render() it is in.
StalledProducerNeverBlocksRender ==
  /\ [][(rpc = "rg_timedout" /\ ~has_data_to_render /\ rpc' # rpc)
          => (rpc' = "rg_lock2" /\ ~got_chain')]_vars
  /\ (rpc \in {"rg_lock1"} \cup RenderWaitPositions) ~> (rpc = "loop")

\* The wait has ended without a chain while the game thread, which never
\* published, is blocked in gl_vsync.
TimedOutWithoutChainReached ==
  rpc = "rg_lock2" /\ ~got_chain /\ last_input_data = NoData /\ spc = "vs_blocked"

(***************************************************************************)
(* Properties of the target resolver                                       *)
(***************************************************************************)
\* The last setup_frame call returned (its assertion held).
SetupFrameReturned == settings # NoSettings /\ ~assert_failed

\* The resolution and sample count of the last setup_frame call.
RequestedTuple == <<settings.game_res_w, settings.game_res_h, settings.msaa_samples>>

FboTuple(fbo) == <<fbo.width, fbo.height, fbo.multisample_count>>

\* C11: a setup_frame call with the same game resolution, sample count and
\* window framebuffer size as the call before it destroys no target, calls
\* make_fbo not at all and leaves m_fbo_state, render_fbo included, as it was.
TargetReuseIdempotent ==
  [][ ( /\ settings # NoSettings
        /\ settings'.game_res_w = settings.game_res_w
        /\ settings'.game_res_h = settings.game_res_h
        /\ settings'.msaa_samples = settings.msaa_samples
        /\ settings'.window_framebuffer_width = settings.window_framebuffer_width
        /\ settings'.window_framebuffer_height = settings.window_framebuffer_height )
      => ( /\ setup_log'.made = 0
           /\ setup_log'.destroyed = 0
           /\ ~setup_log'.resolved
           /\ m_fbo_state' = m_fbo_state ) ]_<<settings, m_fbo_state, setup_log>>

\* A call has reused the offscreen targets (render and resolve buffer).
OffscreenTargetsReusedReached ==
  /\ SetupFrameReturned
  /\ ~setup_log.resolved
  /\ m_fbo_state.render_fbo = "render_buffer"
  /\ m_fbo_state.resolve_buffer.valid

\* C12: after a re-resolving call whose requested tuple is the window
\* framebuffer's size with sample count 1, render_fbo is the window entry and
\* neither render_buffer nor resolve_buffer is valid.
DirectPathSelected ==
  ( /\ setup_log.resolved
    /\ RequestedTuple = <<settings.window_framebuffer_width,
                          settings.window_framebuffer_height, 1>> )
  => ( /\ m_fbo_state.render_fbo = "window"
       /\ ~m_fbo_state.render_buffer.valid
       /\ ~m_fbo_state.resolve_buffer.valid )

\* The window was selected by a call that found two offscreen targets.
DirectPathAfterOffscreenReached ==
  /\ setup_log.resolved
  /\ setup_log.had = 2
  /\ m_fbo_state.render_fbo = "window"

\* C13: after a call with msaa_samples > 1 render_buffer is valid with the
\* requested tuple and resolve_buffer is valid with the requested size and
\* sample count 1; after a call that needs an offscreen target with the
\* window's sample count only render_buffer is valid.
ResolveBufferNecessity ==
  SetupFrameReturned =>
    /\ settings.msaa_samples > 1 =>
         /\ m_fbo_state.render_fbo = "render_buffer"
         /\ m_fbo_state.render_buffer.valid
         /\ FboTuple(m_fbo_state.render_buffer) = RequestedTuple
         /\ m_fbo_state.resolve_buffer.valid
         /\ FboTuple(m_fbo_state.resolve_buffer)
              = <<settings.game_res_w, settings.game_res_h, 1>>
    /\ ( /\ settings.msaa_samples = m_fbo_state.window.multisample_count
         /\ m_fbo_state.render_fbo = "render_buffer" ) =>
         /\ m_fbo_state.render_buffer.valid
         /\ FboTuple(m_fbo_state.render_buffer) = RequestedTuple
         /\ ~m_fbo_state.resolve_buffer.valid

\* A multisampled request has been resolved to two offscreen targets.
TwoOffscreenTargetsReached ==
  /\ SetupFrameReturned
  /\ setup_log.resolved
  /\ setup_log.made = 2
  /\ settings.msaa_samples > 1

\* C14 as stated: a call that finds the window resized while the offscreen
\* render target still matches the requested tuple destroys and allocates
\* nothing.
WindowResizeKeepsOffscreenTargets ==
  ( /\ setup_log.window_resized
    /\ setup_log.offscreen
    /\ setup_log.matched )
  => (setup_log.made = 0 /\ setup_log.destroyed = 0)

\* C14 as amended: a call that finds the window resized while the offscreen
\* render target still matches the requested tuple updates the window entry
\* and re-resolves: every offscreen target it held is destroyed, and it ends
\* on the window or on newly made targets of the requested tuple.
WindowResizeForcesResolve ==
  ( /\ setup_log.window_resized
    /\ setup_log.offscreen
    /\ setup_log.matched )
  => ( /\ setup_log.resolved
       /\ setup_log.destroyed = setup_log.had
       /\ setup_log.destroyed >= 1
       /\ m_fbo_state.window.width = settings.window_framebuffer_width
       /\ m_fbo_state.window.height = settings.window_framebuffer_height
       /\ \/ m_fbo_state.render_fbo = "window" /\ setup_log.made = 0
          \/ m_fbo_state.render_fbo = "render_buffer" /\ setup_log.made >= 1 )

\* The window alone was resized and the offscreen targets were made anew.
ResizeReallocatedReached ==
  /\ SetupFrameReturned
  /\ setup_log.window_resized
  /\ setup_log.offscreen
  /\ setup_log.matched
  /\ setup_log.destroyed = 2
  /\ setup_log.made = 2

\* C15: setup_frame's assertion on the game resolution never fails.
GameResolutionAlwaysPositive ==
  ~assert_failed /\ (settings # NoSettings => (settings.game_res_w > 0 /\ settings.game_res_h > 0))

\* C16: after each setup_frame call the window entry is valid, is_window and
\* single-sampled, it is never invalidated, and the offscreen entries never
\* become window entries.
WindowSurfaceNeverDestroyed ==
  /\ [](settings # NoSettings =>
          /\ m_fbo_state.window.valid
          /\ m_fbo_state.window.is_window
          /\ m_fbo_state.window.multisample_count = 1
          /\ ~m_fbo_state.render_buffer.is_window
          /\ ~m_fbo_state.resolve_buffer.is_window)
  /\ [][m_fbo_state.window.valid => m_fbo_state'.window.valid]_m_fbo_state

\* Both offscreen targets were destroyed by a call; the window entry is valid.
OffscreenDestroyedWindowKeptReached ==
  /\ settings # NoSettings
  /\ setup_log.destroyed = 2
  /\ m_fbo_state.window.valid

\* C17: after every setup_frame call render_fbo is set and the target it
\* designates has the requested size and sample count; a call that finds the
\* selected target not matching destroys every offscreen target it held, and
\* render_buffer changes only by being made anew.
RenderFboMatchesRequest ==
  /\ [](SetupFrameReturned =>
          /\ m_fbo_state.render_fbo # NoFbo
          /\ RenderFbo(m_fbo_state).valid
          /\ FboTuple(RenderFbo(m_fbo_state)) = RequestedTuple)
  /\ []((settings # NoSettings /\ ~setup_log.matched) =>
          (setup_log.resolved /\ setup_log.destroyed = setup_log.had))
  /\ [][ FboTuple(m_fbo_state'.render_buffer) # FboTuple(m_fbo_state.render_buffer)
           => (setup_log'.resolved /\ setup_log'.made >= 1
               /\ setup_log'.destroyed = setup_log'.had) ]_m_fbo_state

\* A changed request replaced valid offscreen targets by new ones.
TargetsReplacedReached ==
  /\ SetupFrameReturned
  /\ ~setup_log.window_resized
  /\ ~setup_log.matched
  /\ setup_log.destroyed >= 1
  /\ setup_log.made >= 1

(***************************************************************************)
(* Properties of the display state machine                                 *)
(***************************************************************************)
\* The video mode of the monitor fullscreen_pending looks at.
ActiveVideoMode == monitor_vmode[get_monitor(m_fullscreen_screen)]

\* fullscreen_flush has not run yet.
NoFlushYet == m_last_video_mode = ZeroVideoMode

\* C18: m_fullscreen_mode changes only in a step that runs fullscreen_flush,
\* and then to the target mode; a step that writes the target mode or the
\* target screen (set_fullscreen) writes nothing else of the display.
CurrentModeChangesOnlyInFlush ==
  /\ [][ m_fullscreen_mode' # m_fullscreen_mode
           => (flushed' /\ m_fullscreen_mode' = m_fullscreen_target_mode) ]_vars
  /\ [][ ( \/ m_fullscreen_target_mode' # m_fullscreen_target_mode
           \/ m_fullscreen_target_screen' # m_fullscreen_target_screen )
           => UNCHANGED <<m_fullscreen_mode, m_fullscreen_screen, m_last_fullscreen_mode,
                          m_last_windowed, m_minimized, m_last_video_mode>> ]_vars

\* A mode change has been requested and the window iconified while the current
\* mode is still the one applied by the last flush.
TargetWrittenModeKeptReached ==
  /\ m_fullscreen_mode = "Fullscreen"
  /\ m_fullscreen_target_mode = "Borderless"
  /\ m_minimized
  /\ ~flushed

\* C19 as stated: the constructor leaves the current mode, the target mode and
\* the last-applied mode at Windowed.
NewDisplayIsWindowed ==
  [][ (~display_created /\ display_created')
        => ( /\ m_fullscreen_mode' = "Windowed"
             /\ m_fullscreen_target_mode' = "Windowed"
             /\ m_last_fullscreen_mode' = "Windowed" ) ]_vars

\* C19 as amended: the constructor leaves the target mode and the last-applied
\* mode at Windowed and the current mode at the invalid value -1; the current
\* mode keeps that value exactly until the first flush, and until then a flush
\* is pending.
NewDisplayHasNoModeUntilFlush ==
  /\ [][ (~display_created /\ display_created')
           => ( /\ m_fullscreen_mode' = InvalidMode
                /\ m_fullscreen_target_mode' = "Windowed"
                /\ m_last_fullscreen_mode' = "Windowed" ) ]_vars
  /\ [](NoFlushYet => (m_fullscreen_mode = InvalidMode /\ fullscreen_pending))
  /\ [](~NoFlushYet => m_fullscreen_mode \in DisplayModes)

\* A display has been created and not flushed yet.
NewDisplayBeforeFlushReached ==
  /\ display_created
  /\ NoFlushYet
  /\ m_fullscreen_mode = InvalidMode
  /\ m_fullscreen_target_mode = "Windowed"

\* C20: fullscreen_pending() is true when the current mode differs from the
\* target mode, and when the display is in Fullscreen or Borderless mode and
\* the active monitor's video mode differs in width, height or refresh rate
\* from the one recorded at the last flush.
PendingDetectsModeAndMonitorChange ==
  display_created =>
    /\ m_fullscreen_mode # m_fullscreen_target_mode => fullscreen_pending
    /\ ( /\ m_fullscreen_mode \in {"Fullscreen", "Borderless"}
         /\ \/ ActiveVideoMode.width # m_last_video_mode.width
            \/ ActiveVideoMode.height # m_last_video_mode.height
            \/ ActiveVideoMode.refreshRate # m_last_video_mode.refreshRate )
       => fullscreen_pending

\* The monitor's video mode changed after a flush to Fullscreen, with no mode
\* or screen change requested.
MonitorChangedInFullscreenReached ==
  /\ m_fullscreen_mode = "Fullscreen"
  /\ m_fullscreen_target_mode = "Fullscreen"
  /\ m_fullscreen_screen = m_fullscreen_target_screen
  /\ ActiveVideoMode # m_last_video_mode
  /\ ActiveVideoMode.width = m_last_video_mode.width
  /\ fullscreen_pending

\* C21: a render() iteration that finds the window minimized does not call
\* fullscreen_flush: the current mode and screen, the recorded video mode and
\* the remembered window geometry stay as they were, no geometry is given to
\* the window, and a pending request is still pending afterwards.
MinimizedSuppressesFlush ==
  [][ (updated' /\ m_minimized)
        => /\ ~flushed'
           /\ applied' = NoGeometry
           /\ UNCHANGED <<m_fullscreen_mode, m_fullscreen_screen, m_last_video_mode,
                          m_last_windowed, m_fullscreen_target_mode,
                          m_fullscreen_target_screen>>
           /\ (fullscreen_pending => fullscreen_pending') ]_vars

\* An iteration has just passed over a pending request of a minimized window.
MinimizedPendingKeptReached ==
  /\ updated /\ m_minimized /\ ~flushed /\ fullscreen_pending
  /\ m_fullscreen_mode = "Windowed" /\ m_fullscreen_target_mode = "Fullscreen"

\* The position update_fullscreen computes for a window of the given size that
\* comes back from a fullscreen mode on the given screen.
CentredOn(screen, width, height) ==
  LET area == MonitorWorkarea(get_monitor(screen)) IN
  [xpos |-> area.x + (area.width \div 2) - (width \div 2),
   ypos |-> area.y + (area.height \div 2) - (height \div 2),
   width |-> width, height |-> height]

\* C22 as stated: a flush from Windowed to Fullscreen followed by the flush back
\* to Windowed, with no change of the remembered geometry in between, gives the
\* window the geometry it had before and leaves the remembered geometry equal
\* to it, position included.
RoundTripRestoresGeometry ==
  roundtrip.stage = "back"
    => (m_last_windowed = roundtrip.origin /\ applied = roundtrip.origin)

\* C22 as amended: the round trip restores the width and height; the position
\* is the centre of the work area of the monitor of the screen flushed to, and
\* the window is given the geometry that is remembered afterwards.
RoundTripRestoresSizeAndRecentres ==
  roundtrip.stage = "back"
    => /\ m_last_windowed.width = roundtrip.origin.width
       /\ m_last_windowed.height = roundtrip.origin.height
       /\ m_last_windowed = CentredOn(m_fullscreen_screen, roundtrip.origin.width,
                                      roundtrip.origin.height)
       /\ applied = m_last_windowed

\* A round trip has ended with the window at another position than before.
RoundTripMovedWindowReached ==
  /\ roundtrip.stage = "back" /\ flushed /\ m_fullscreen_mode = "Windowed"
  /\ m_last_windowed.width = roundtrip.origin.width
  /\ m_last_windowed.xpos # roundtrip.origin.xpos

\* C23: a flush to Windowed whose prior mode is Windowed, and likewise
\* the first flush of a new display, gives the window the remembered geometry
\* as it is and leaves the remembered geometry unchanged.
WindowedFlushKeepsGeometry ==
  [][ (flushed' /\ m_fullscreen_target_mode = "Windowed"
         /\ m_fullscreen_mode \in {"Windowed", InvalidMode})
        => (applied' = m_last_windowed /\ m_last_windowed' = m_last_windowed) ]_vars

\* C24: a flush to Windowed from Fullscreen or Borderless keeps the remembered
\* width and height and centres the window on the work area of the monitor of
\* the screen that was current (the one last made fullscreen), whatever the
\* current and the requested screen index are.
WindowedFlushCentresOnFullscreenedMonitor ==
  [][ (flushed' /\ m_fullscreen_target_mode = "Windowed"
         /\ m_fullscreen_mode \in {"Fullscreen", "Borderless"})
        => /\ m_last_windowed' = CentredOn(m_fullscreen_screen, m_last_windowed.width,
                                           m_last_windowed.height)
           /\ applied' = m_last_windowed' ]_vars

\* C25 as stated: when render_game_frame has consumed a chain and returns to the
\* buffer swap, the flag is cleared and the frame index has already been
\* incremented for this iteration.
FrameCompleteSignalledBeforeSwap ==
  [][ (rpc = "rg_clear" /\ consumed' # consumed)
        => (rpc' = "swap" /\ ~has_data_to_render' /\ frame_idx' = presented + 1) ]_vars

\* C25 as amended: an iteration starts with the event poll, the only step that
\* reads the close request; a chain is marked consumed before the buffer swap
\* of its iteration; the frame index is incremented, and the gl_vsync waiters
\* woken, after the swap and before the display-mode block; the exit check
\* comes after the display-mode block and ends the iteration.
IterationOrder ==
  /\ [][(rpc = "loop" /\ rpc' # rpc) => rpc' \in {"poll", "stopped"}]_vars
  /\ [][window_should_close' # window_should_close => rpc = "poll"]_vars
  /\ [][consumed' # consumed
          => (rpc = "rg_clear" /\ rpc' = "swap" /\ ~has_data_to_render'
              /\ presented = frame_idx)]_vars
  /\ [][presented' # presented => (rpc = "swap" /\ frame_idx = presented)]_vars
  /\ [][frame_idx' # frame_idx
          => /\ presented = frame_idx + 1
             /\ rpc' = "fullscreen"
             /\ spc = "vs_blocked" => spc' = "vs_woken"]_vars
  /\ [][(rpc = "fullscreen" /\ rpc' # rpc)
          => (rpc' = "exit_check" /\ frame_idx = presented)]_vars
  /\ [][MasterExit' # MasterExit => rpc = "exit_check"]_vars
  /\ [][(rpc = "exit_check" /\ rpc' # rpc) => rpc' = "loop"]_vars

\* A chain has been consumed and the buffers swapped, and the frame index has
\* not been incremented yet.
SwappedBeforeFrameCompleteReached ==
  /\ rpc = "fi_lock" /\ consumed = 1 /\ presented = 1 /\ frame_idx = 0
  /\ ~has_data_to_render

\* C26: frame_idx is written by one step only, the increment by one that the
\* render thread makes in render() after the buffer swap while it holds
\* sync_mutex, and that step wakes every thread waiting on sync_cv; so the
\* index never decreases and at the end of each iteration it equals the number
\* of presented frames.
FrameIdxWrittenOnlyByFrameDone ==
  /\ [][ frame_idx' # frame_idx
           => /\ frame_idx' = frame_idx + 1
              /\ rpc = "fi_inc" /\ rpc' # rpc
              /\ sync_mutex = "render" /\ sync_mutex' = Free
              /\ presented = frame_idx'
              /\ spc' = NotifySyncCv(spc)
              /\ spc \in {"vs_blocked", "sp_blocked"} => spc' # spc ]_vars
  /\ [][frame_idx' >= frame_idx]_vars
  /\ [](rpc \in {"loop", "stopped"} => frame_idx = presented)

\* The increment has just woken a gl_vsync call that was waiting for it.
VsyncWokenByFrameDoneReached ==
  /\ rpc = "fullscreen" /\ frame_idx = 1 /\ presented = 1
  /\ spc = "vs_woken" /\ init_frame = 0 /\ sync_mutex = Free

\* C27: after every setup_frame call that returned, the Fbo a screenshot is read
\* from (resolve_buffer if it is valid, else the target render_fbo points to)
\* is valid, is not multisampled and has the requested resolution; it is
\* resolve_buffer whenever the frame's render target is multisampled.
ScreenshotSourceValidSingleSampled ==
  SetupFrameReturned
    => /\ ScreenshotSource(m_fbo_state).valid
       /\ ~Multisampled(ScreenshotSource(m_fbo_state))
       /\ ScreenshotSource(m_fbo_state).width = settings.game_res_w
       /\ ScreenshotSource(m_fbo_state).height = settings.game_res_h
       /\ Multisampled(RenderFbo(m_fbo_state))
            => ScreenshotSource(m_fbo_state) = m_fbo_state.resolve_buffer

\* A screenshot is taken of a frame rendered into a multisampled target.
ScreenshotOfMultisampledFrameReached ==
  /\ SetupFrameReturned /\ settings.save_screenshot
  /\ Multisampled(RenderFbo(m_fbo_state))
  /\ m_fbo_state.resolve_buffer.valid

\* Row r (counted from 0) of a buffer of the current width.
RowOf(buf, r) == [w \in 1..shot_width |-> buf[r * shot_width + w]]

\* C28: the pixels finish_screenshot writes are the read-back pixels flipped
\* upside down with the alpha byte forced: output row r is read-back row
\* height - 1 - r, and every output pixel has top byte 0xFF and the lower 24
\* bits of the pixel it comes from.
ScreenshotFlippedWithAlpha ==
  shot_pc = "done"
    => /\ Len(png) = shot_width * shot_height
       /\ \A r \in 0..(shot_height - 1) :
            RowOf(png, r) = [w \in 1..shot_width |->
                               [top |-> 255,
                                low |-> RowOf(read_back, shot_height - 1 - r)[w].low]]

\* A screenshot of odd height with distinct top and bottom rows was written.
OddHeightScreenshotReached ==
  /\ shot_pc = "done" /\ shot_height = 3 /\ shot_width = 2
  /\ RowOf(read_back, 0) # RowOf(read_back, 2)
  /\ RowOf(read_back, 1)[1].top # 255

\* The game thread is inside gl_sync_path and has not reached its return.
SyncPathPositions == {"sp_first", "sp_check", "sp_block", "sp_blocked", "sp_woken"}

\* C29: a gl_sync_path call that is under way when has_data_to_render is false,
\* in particular one that went to sleep after render_game_frame's clear and so
\* missed its notification, eventually returns.
SyncPathReturnsAfterClear ==
  (spc \in SyncPathPositions /\ ~has_data_to_render) ~> (spc = "sp_ret")

\* gl_sync_path saw the flag true, the flag was cleared and notified before the
\* call blocked, and the call is now asleep with the flag false.
SyncPathAsleepAfterClearReached ==
  /\ spc = "sp_blocked" /\ found_pending /\ cleared_since
  /\ ~has_data_to_render /\ rpc = "swap"

\* C30: right after fullscreen_flush the current mode and screen equal the
\* targets and the recorded video mode is the one of the current screen's
\* monitor, so nothing is pending; pending becomes true again only in a step
\* that changes the target mode, the target screen or a monitor's video mode;
\* and the iteration that follows a flush directly does not flush.
FlushSettlesPending ==
  /\ [](flushed => /\ m_fullscreen_mode = m_fullscreen_target_mode
                   /\ m_fullscreen_screen = m_fullscreen_target_screen
                   /\ m_last_video_mode = ActiveVideoMode
                   /\ ~fullscreen_pending)
  /\ [][ (~fullscreen_pending /\ fullscreen_pending')
           => \/ m_fullscreen_target_mode' # m_fullscreen_target_mode
              \/ m_fullscreen_target_screen' # m_fullscreen_target_screen
              \/ monitor_vmode' # monitor_vmode ]_vars
  /\ [][(flushed /\ updated') => ~flushed']_vars

\* A flush has moved the display to a monitor whose video mode differs from
\* that of the monitor it was on.
FlushedToOtherMonitorReached ==
  /\ flushed /\ m_fullscreen_mode = "Borderless" /\ m_fullscreen_screen = 1
  /\ m_last_fullscreen_mode = "Fullscreen"
  /\ monitor_vmode[1] # monitor_vmode[0]
  /\ m_last_video_mode = monitor_vmode[1]

\* C31: an iteration that finds a request differing from the current mode or
\* screen and the window not minimized applies it, with the target mode and
\* screen as they are at that moment (the most recent ones); and with render()
\* called again and again such a request does not stay pending while the
\* window is not minimized.
DeferredRequestEventuallyApplied ==
  /\ [][ (updated' /\ BaseFullscreenPending /\ ~m_minimized)
           => /\ flushed'
              /\ m_fullscreen_mode' = m_fullscreen_target_mode
              /\ m_fullscreen_screen' = m_fullscreen_target_screen
              /\ UNCHANGED <<m_fullscreen_target_mode, m_fullscreen_target_screen>> ]_vars
  /\ (display_created /\ BaseFullscreenPending /\ ~m_minimized)
       ~> (~BaseFullscreenPending \/ m_minimized)

\* A request made while the window was minimized and then replaced by another
\* has been applied after the window was restored: the mode is the later one.
LaterRequestAppliedReached ==
  /\ flushed /\ ~m_minimized
  /\ m_last_fullscreen_mode = "Windowed"
  /\ m_fullscreen_mode = "Borderless" /\ m_fullscreen_screen = 1

\* C32: after every setup_frame call render_fbo designates the window entry or
\* render_buffer; if it is the window entry, render_buffer and resolve_buffer
\* are invalid; a valid resolve_buffer comes with a valid, selected
\* render_buffer; and the offscreen targets held before a call, less those it
\* destroyed, plus those it made are never more than two.
ResolverStructure ==
  settings # NoSettings
    => /\ m_fbo_state.render_fbo \in {"window", "render_buffer"}
       /\ m_fbo_state.render_fbo = "window"
            => (~m_fbo_state.render_buffer.valid /\ ~m_fbo_state.resolve_buffer.valid)
       /\ m_fbo_state.resolve_buffer.valid
            => (m_fbo_state.render_buffer.valid
                /\ m_fbo_state.render_fbo = "render_buffer")
       /\ m_fbo_state.render_fbo = "render_buffer" => m_fbo_state.render_buffer.valid
       /\ setup_log.had - setup_log.destroyed + setup_log.made <= 2
       /\ ValidOffscreen(m_fbo_state)
            = setup_log.had - setup_log.destroyed + setup_log.made

\* A call went back to the window surface from two valid offscreen targets.
WindowSelectedAfterTwoOffscreenReached ==
  /\ settings # NoSettings /\ ~assert_failed
  /\ m_fbo_state.render_fbo = "window"
  /\ setup_log.had = 2 /\ setup_log.destroyed = 2 /\ setup_log.made = 0

\* C33: on_window_pos and on_window_size leave the remembered geometry as it is
\* unless the target mode is Windowed, and then write the position or the size
\* only; set_size leaves it as it is unless the current mode is Windowed, and
\* then writes the size only.
CallbacksRespectTargetMode ==
  /\ [][ last_call' = "on_window_pos"
           => /\ m_fullscreen_target_mode # "Windowed"
                   => m_last_windowed' = m_last_windowed
              /\ m_last_windowed'.width = m_last_windowed.width
              /\ m_last_windowed'.height = m_last_windowed.height ]_vars
  /\ [][ last_call' = "on_window_size"
           => /\ m_fullscreen_target_mode # "Windowed"
                   => m_last_windowed' = m_last_windowed
              /\ m_last_windowed'.xpos = m_last_windowed.xpos
              /\ m_last_windowed'.ypos = m_last_windowed.ypos ]_vars
  /\ [][ last_call' = "set_size"
           => /\ m_fullscreen_mode # "Windowed"
                   => m_last_windowed' = m_last_windowed
              /\ m_last_windowed'.xpos = m_last_windowed.xpos
              /\ m_last_windowed'.ypos = m_last_windowed.ypos ]_vars

\* A size callback arrived while the window was still Windowed and the target
\* already Fullscreen.
SizeCallbackWhileLeavingWindowedReached ==
  /\ last_call = "on_window_size"
  /\ m_fullscreen_mode = "Windowed" /\ m_fullscreen_target_mode = "Fullscreen"

\* A step that changes frame_idx_of_input_data is the render thread's take and
\* stores the frame_idx of that moment.
InputFrameWrittenAtTake ==
  (frame_idx_of_input_data' # frame_idx_of_input_data) => (rpc = "rg_take" /\ rpc' = "rg_render" /\ spc' = spc /\ frame_idx' = frame_idx /\ frame_idx_of_input_data' = frame_idx)

\* A gl_vsync call entered after the latest taken frame was presented reads a
\* baseline below frame_idx.
VsyncEntryAfterPresented ==
  (spc = "idle" /\ spc' = "vs_check" /\ frame_idx > frame_idx_of_input_data) => (init_frame' < frame_idx')

\* A gl_vsync call whose baseline is below frame_idx does not block and keeps
\* the baseline below frame_idx while it is in the call.
VsyncBelowNeverBlocks ==
  (spc \in VsyncPositions /\ init_frame < frame_idx) => (spc' # "vs_blocked" /\ (spc' \in VsyncPositions => init_frame' < frame_idx'))

\* C34: frame_idx_of_input_data never exceeds frame_idx; it changes only in the
\* render thread's step that takes a frame, which sets it to the frame_idx of
\* that moment; and a gl_vsync call entered when the iteration that took the
\* latest frame has already presented (frame_idx > frame_idx_of_input_data)
\* reads a baseline below frame_idx, keeps it below, and never blocks.
InputFrameTrailsFrameIdx ==
  /\ [](frame_idx_of_input_data <= frame_idx)
  /\ [][InputFrameWrittenAtTake]_vars
  /\ [][VsyncEntryAfterPresented]_vars
  /\ [][VsyncBelowNeverBlocks]_vars

\* C34: gl_vsync is about to return, never having blocked, on a call whose
\* baseline is the latest taken frame, taken after the first presentation and
\* itself presented.
VsyncAfterPresentedReached ==
  /\ spc = "vs_ret"
  /\ frame_idx_of_input_data >= 1
  /\ init_frame = frame_idx_of_input_data
  /\ init_frame < frame_idx
(***************************************************************************)
(* Graphics entry points, renderer selection and the display list          *)
(***************************************************************************)
\* GetRenderer: the renderer module of a pipeline, "none" for NULL.
GetRenderer(pipeline) == IF pipeline = "OpenGL" THEN "OpenGL" ELSE "none"

\* SetRenderer(pipeline)
SetRenderer(pipeline) ==
  /\ fault = "none"
  /\ renderer' = GetRenderer(pipeline)
  /\ UNCHANGED <<sync_mutex, dma_mutex, frame_idx, frame_idx_of_input_data,
                 has_data_to_render, last_input_data, last_input_offset, MasterExit,
                 window_should_close, rpc, got_chain, spc, arg_data, arg_offset,
                 init_frame, sim_ret, slot_read, consumed, presented, found_pending,
                 cleared_since, synced, m_fbo_state, settings, assert_failed,
                 setup_log, display_created, m_fullscreen_mode,
                 m_fullscreen_target_mode, m_last_fullscreen_mode, m_fullscreen_screen,
                 m_fullscreen_target_screen, m_last_windowed, m_minimized,
                 m_last_video_mode, monitor_vmode, flushed, updated, applied,
                 roundtrip, last_call, shot_pc, shot_width, shot_height, buffer,
                 shot_h, read_back, png, graphics_data, gl_inited, g_displays,
                 has_window, m_main, fault, deref_null, last_entry, g_key_status,
                 g_buffered_key_status, input_mode, input_mode_index, input_mode_pad,
                 gamepad_idx, key_fault, key_call, press, last_map, mapped_button>>

\* Variant of gl_vsync: the graphics data is used without the null test.
gl_vsync_unchecked(parity) == [ret |-> parity, entered |-> TRUE]

\* gl_vsync: 0 at once when g_graphics_data is null, otherwise the call locks
\* sync_mutex and goes through the wait; parity is frame_idx & 1 at its return.
gl_vsync(parity) ==
  IF ~graphics_data THEN [ret |-> 0, entered |-> FALSE]
  ELSE [ret |-> parity, entered |-> TRUE]

\* gl_sync_path: 0 at once when g_graphics_data is null, otherwise the call locks
\* sync_mutex and returns 0 once no chain is pending.
gl_sync_path ==
  IF ~graphics_data THEN [ret |-> 0, entered |-> FALSE]
  ELSE [ret |-> 0, entered |-> TRUE]

\* gl_send_chain: the body runs only if (g_graphics_data); void is shown as 0.
gl_send_chain ==
  IF graphics_data THEN [ret |-> 0, entered |-> TRUE]
  ELSE [ret |-> 0, entered |-> FALSE]

\* The renderer module's function fn.
RendererCall(fn, parity) ==
  IF fn = "vsync" THEN gl_vsync(parity)
  ELSE IF fn = "sync_path" THEN gl_sync_path
  ELSE gl_send_chain

\* Graphics::vsync, Graphics::sync_path, Graphics::send_chain: forwarded to the
\* current renderer if there is one, otherwise 0 (or nothing).
GraphicsCall(fn, parity) ==
  IF renderer # "none" THEN RendererCall(fn, parity)
  ELSE [ret |-> 0, entered |-> FALSE]

EntryFunctions == {"vsync", "sync_path", "send_chain"}

\* The game thread calls Graphics::vsync, sync_path or send_chain.
CallGraphics(fn, parity) ==
  /\ fault = "none"
  /\ LET r == GraphicsCall(fn, parity)
     IN last_entry' = [fn |-> fn, layer |-> "Graphics", had_renderer |-> renderer # "none", had_data |-> graphics_data, ret |-> r.ret, entered |-> r.entered]
  /\ UNCHANGED <<sync_mutex, dma_mutex, frame_idx, frame_idx_of_input_data,
                 has_data_to_render, last_input_data, last_input_offset, MasterExit,
                 window_should_close, rpc, got_chain, spc, arg_data, arg_offset,
                 init_frame, sim_ret, slot_read, consumed, presented, found_pending,
                 cleared_since, synced, m_fbo_state, settings, assert_failed,
                 setup_log, display_created, m_fullscreen_mode,
                 m_fullscreen_target_mode, m_last_fullscreen_mode, m_fullscreen_screen,
                 m_fullscreen_target_screen, m_last_windowed, m_minimized,
                 m_last_video_mode, monitor_vmode, flushed, updated, applied,
                 roundtrip, last_call, shot_pc, shot_width, shot_height, buffer,
                 shot_h, read_back, png, renderer, graphics_data, gl_inited,
                 g_displays, has_window, m_main, fault, deref_null, g_key_status,
                 g_buffered_key_status, input_mode, input_mode_index, input_mode_pad,
                 gamepad_idx, key_fault, key_call, press, last_map, mapped_button>>

\* The game thread calls gl_vsync, gl_sync_path or gl_send_chain.
CallGl(fn, parity) ==
  /\ fault = "none"
  /\ LET r == RendererCall(fn, parity)
     IN last_entry' = [fn |-> fn, layer |-> "gl", had_renderer |-> renderer # "none", had_data |-> graphics_data, ret |-> r.ret, entered |-> r.entered]
  /\ UNCHANGED <<sync_mutex, dma_mutex, frame_idx, frame_idx_of_input_data,
                 has_data_to_render, last_input_data, last_input_offset, MasterExit,
                 window_should_close, rpc, got_chain, spc, arg_data, arg_offset,
                 init_frame, sim_ret, slot_read, consumed, presented, found_pending,
                 cleared_since, synced, m_fbo_state, settings, assert_failed,
                 setup_log, display_created, m_fullscreen_mode,
                 m_fullscreen_target_mode, m_last_fullscreen_mode, m_fullscreen_screen,
                 m_fullscreen_target_screen, m_last_windowed, m_minimized,
                 m_last_video_mode, monitor_vmode, flushed, updated, applied,
                 roundtrip, last_call, shot_pc, shot_width, shot_height, buffer,
                 shot_h, read_back, png, renderer, graphics_data, gl_inited,
                 g_displays, has_window, m_main, fault, deref_null, g_key_status,
                 g_buffered_key_status, input_mode, input_mode_index, input_mode_pad,
                 gamepad_idx, key_fault, key_call, press, last_map, mapped_button>>

\* The elements of a display list.
Range(list) == {list[i] : i \in 1..Len(list)}

\* Display::GetMainDisplay: the first display if it is active, else NULL.
GetMainDisplay(list, win) ==
  IF Len(list) = 0 THEN NullDisplay
  ELSE IF list[1] \in win THEN list[1] ELSE NullDisplay

\* std::find followed by erase: the list without the first occurrence of d.
Erase(list, d) ==
  LET i == CHOOSE k \in 1..Len(list) : list[k] = d /\ \A j \in 1..(k - 1) : list[j] # d
  IN SubSeq(list, 1, i - 1) \o SubSeq(list, i + 1, Len(list))

\* KillDisplay of a display that is not the main display.
KillChild(list, win, d) ==
  IF d \notin win THEN [list |-> list, fault |-> "none"]
  ELSE IF d \notin Range(list) THEN [list |-> list, fault |-> "erase_end"]
  ELSE [list |-> Erase(list, d), fault |-> "none"]

RECURSIVE KillChildren(_, _)
\* while (g_displays.size() > 1) KillDisplay(g_displays.at(1)): an inactive
\* display at index 1 is never removed, so the loop does not end.
KillChildren(list, win) ==
  IF Len(list) <= 1 THEN [list |-> list, fault |-> "none"]
  ELSE LET r == KillChild(list, win, list[2])
       IN IF r.fault # "none" THEN r
          ELSE IF r.list = list THEN [list |-> list, fault |-> "loop"]
          ELSE KillChildren(r.list, win)

\* Display::KillDisplay(display): the list afterwards and how the call ended.
KillDisplay(list, win, display) ==
  IF display = NullDisplay THEN [list |-> list, fault |-> "null_display"]
  ELSE IF display \notin win THEN [list |-> list, fault |-> "none"]
  ELSE LET r == IF GetMainDisplay(list, win) = display THEN KillChildren(list, win) ELSE [list |-> list, fault |-> "none"]
       IN IF r.fault # "none" THEN r
          ELSE IF display \notin Range(r.list) THEN [list |-> r.list, fault |-> "erase_end"]
          ELSE [list |-> Erase(r.list, display), fault |-> "none"]

\* The state after a KillDisplay call that ended as r: the displays dropped
\* from the list are destroyed, and ~OpenGLDisplay of a main display runs
\* gl_exit.  A call through a null display either crashes or goes on as for
\* an inactive display; a loop that does not end and an erase of end() stop
\* the process.
AfterKill(r, survive) ==
  LET destroyed == Range(g_displays) \ Range(r.list)
  IN /\ g_displays' = r.list
     /\ has_window' = has_window \ destroyed
     /\ m_main' = m_main \ destroyed
     /\ graphics_data' = IF destroyed \cap m_main # {} THEN FALSE ELSE graphics_data
     /\ gl_inited' = IF destroyed \cap m_main # {} THEN FALSE ELSE gl_inited
     /\ deref_null' = IF r.fault = "null_display" THEN "display" ELSE deref_null
     /\ fault' = IF r.fault = "null_display" THEN (IF survive THEN "none" ELSE "crashed")
                 ELSE IF r.fault = "none" THEN "none" ELSE r.fault

\* The smallest display not in the list.
FreshDisplay == CHOOSE d \in Displays : d \notin Range(g_displays) /\ \A e \in Displays : e \notin Range(g_displays) => d <= e

MakeOutcomes == {"no_window", "gl_fail", "glfw_error", "ok"}

\* Display::InitMainDisplay with gl_make_display and set_main_display.
InitMainDisplay(outcome, survive) ==
  /\ fault = "none"
  /\ outcome = "gl_fail" => ~gl_inited
  /\ Len(g_displays) < MaxDisplays \/ GetMainDisplay(g_displays, has_window) # NullDisplay
  /\ IF GetMainDisplay(g_displays, has_window) # NullDisplay
       THEN UNCHANGED <<graphics_data, gl_inited, g_displays, has_window, m_main, fault, deref_null>>
     ELSE IF renderer = "none"
       THEN /\ deref_null' = "renderer"
            /\ fault' = IF survive THEN "none" ELSE "crashed"
            /\ UNCHANGED <<graphics_data, gl_inited, g_displays, has_window, m_main>>
     ELSE /\ graphics_data' = IF outcome \in {"glfw_error", "ok"} THEN TRUE ELSE graphics_data
          /\ gl_inited' = IF outcome \in {"glfw_error", "ok"} THEN TRUE ELSE gl_inited
          /\ IF outcome = "ok"
               THEN /\ g_displays' = IF Len(g_displays) > 0 THEN <<FreshDisplay>> \o Tail(g_displays) ELSE <<FreshDisplay>>
                    /\ has_window' = (IF Len(g_displays) > 0 THEN has_window \ {g_displays[1]} ELSE has_window) \cup {FreshDisplay}
                    /\ m_main' = (IF Len(g_displays) > 0 THEN m_main \ {g_displays[1]} ELSE m_main) \cup {FreshDisplay}
               ELSE UNCHANGED <<g_displays, has_window, m_main>>
          /\ UNCHANGED <<fault, deref_null>>
  /\ UNCHANGED <<sync_mutex, dma_mutex, frame_idx, frame_idx_of_input_data,
                 has_data_to_render, last_input_data, last_input_offset, MasterExit,
                 window_should_close, rpc, got_chain, spc, arg_data, arg_offset,
                 init_frame, sim_ret, slot_read, consumed, presented, found_pending,
                 cleared_since, synced, m_fbo_state, settings, assert_failed,
                 setup_log, display_created, m_fullscreen_mode,
                 m_fullscreen_target_mode, m_last_fullscreen_mode, m_fullscreen_screen,
                 m_fullscreen_target_screen, m_last_windowed, m_minimized,
                 m_last_video_mode, monitor_vmode, flushed, updated, applied,
                 roundtrip, last_call, shot_pc, shot_width, shot_height, buffer,
                 shot_h, read_back, png, renderer, last_entry, g_key_status,
                 g_buffered_key_status, input_mode, input_mode_index, input_mode_pad,
                 gamepad_idx, key_fault, key_call, press, last_map, mapped_button>>

\* An extra view is appended to g_displays after the main display; window
\* tells whether its get_window() is not null.
AddDisplay(window) ==
  /\ fault = "none"
  /\ Len(g_displays) >= 1
  /\ Len(g_displays) < MaxDisplays
  /\ g_displays' = Append(g_displays, FreshDisplay)
  /\ has_window' = IF window THEN has_window \cup {FreshDisplay} ELSE has_window
  /\ UNCHANGED <<sync_mutex, dma_mutex, frame_idx, frame_idx_of_input_data,
                 has_data_to_render, last_input_data, last_input_offset, MasterExit,
                 window_should_close, rpc, got_chain, spc, arg_data, arg_offset,
                 init_frame, sim_ret, slot_read, consumed, presented, found_pending,
                 cleared_since, synced, m_fbo_state, settings, assert_failed,
                 setup_log, display_created, m_fullscreen_mode,
                 m_fullscreen_target_mode, m_last_fullscreen_mode, m_fullscreen_screen,
                 m_fullscreen_target_screen, m_last_windowed, m_minimized,
                 m_last_video_mode, monitor_vmode, flushed, updated, applied,
                 roundtrip, last_call, shot_pc, shot_width, shot_height, buffer,
                 shot_h, read_back, png, renderer, graphics_data, gl_inited, m_main,
                 fault, deref_null, last_entry, g_key_status, g_buffered_key_status,
                 input_mode, input_mode_index, input_mode_pad, gamepad_idx, key_fault,
                 key_call, press, last_map, mapped_button>>

\* Display::KillMainDisplay: KillDisplay(GetMainDisplay()).
KillMainDisplay(survive) ==
  /\ fault = "none"
  /\ AfterKill(KillDisplay(g_displays, has_window, GetMainDisplay(g_displays, has_window)), survive)
  /\ UNCHANGED <<sync_mutex, dma_mutex, frame_idx, frame_idx_of_input_data,
                 has_data_to_render, last_input_data, last_input_offset, MasterExit,
                 window_should_close, rpc, got_chain, spc, arg_data, arg_offset,
                 init_frame, sim_ret, slot_read, consumed, presented, found_pending,
                 cleared_since, synced, m_fbo_state, settings, assert_failed,
                 setup_log, display_created, m_fullscreen_mode,
                 m_fullscreen_target_mode, m_last_fullscreen_mode, m_fullscreen_screen,
                 m_fullscreen_target_screen, m_last_windowed, m_minimized,
                 m_last_video_mode, monitor_vmode, flushed, updated, applied,
                 roundtrip, last_call, shot_pc, shot_width, shot_height, buffer,
                 shot_h, read_back, png, renderer, last_entry, g_key_status,
                 g_buffered_key_status, input_mode, input_mode_index, input_mode_pad,
                 gamepad_idx, key_fault, key_call, press, last_map, mapped_button>>

\* Display::KillDisplay of a display of the list.
KillListedDisplay(display) ==
  /\ fault = "none"
  /\ display \in Range(g_displays)
  /\ AfterKill(KillDisplay(g_displays, has_window, display), TRUE)
  /\ UNCHANGED <<sync_mutex, dma_mutex, frame_idx, frame_idx_of_input_data,
                 has_data_to_render, last_input_data, last_input_offset, MasterExit,
                 window_should_close, rpc, got_chain, spc, arg_data, arg_offset,
                 init_frame, sim_ret, slot_read, consumed, presented, found_pending,
                 cleared_since, synced, m_fbo_state, settings, assert_failed,
                 setup_log, display_created, m_fullscreen_mode,
                 m_fullscreen_target_mode, m_last_fullscreen_mode, m_fullscreen_screen,
                 m_fullscreen_target_screen, m_last_windowed, m_minimized,
                 m_last_video_mode, monitor_vmode, flushed, updated, applied,
                 roundtrip, last_call, shot_pc, shot_width, shot_height, buffer,
                 shot_h, read_back, png, renderer, last_entry, g_key_status,
                 g_buffered_key_status, input_mode, input_mode_index, input_mode_pad,
                 gamepad_idx, key_fault, key_call, press, last_map, mapped_button>>

\* Graphics::Exit: Display::KillMainDisplay(), then GetCurrentRenderer()->exit()
\* (gl_exit), which is reached only if the kill returned.
GraphicsExit(survive) ==
  /\ fault = "none"
  /\ LET r == KillDisplay(g_displays, has_window, GetMainDisplay(g_displays, has_window))
         destroyed == Range(g_displays) \ Range(r.list)
         returned == r.fault = "none" \/ (r.fault = "null_display" /\ survive)
     IN /\ g_displays' = r.list
        /\ has_window' = has_window \ destroyed
        /\ m_main' = m_main \ destroyed
        /\ graphics_data' = IF destroyed \cap m_main # {} \/ (returned /\ renderer # "none") THEN FALSE ELSE graphics_data
        /\ gl_inited' = IF destroyed \cap m_main # {} \/ (returned /\ renderer # "none") THEN FALSE ELSE gl_inited
        /\ deref_null' = IF r.fault = "null_display" THEN "display"
                         ELSE IF returned /\ renderer = "none" THEN "renderer"
                         ELSE deref_null
        /\ fault' = IF ~returned THEN (IF r.fault = "null_display" THEN "crashed" ELSE r.fault)
                    ELSE IF renderer = "none" THEN "crashed"
                    ELSE "none"
  /\ UNCHANGED <<sync_mutex, dma_mutex, frame_idx, frame_idx_of_input_data,
                 has_data_to_render, last_input_data, last_input_offset, MasterExit,
                 window_should_close, rpc, got_chain, spc, arg_data, arg_offset,
                 init_frame, sim_ret, slot_read, consumed, presented, found_pending,
                 cleared_since, synced, m_fbo_state, settings, assert_failed,
                 setup_log, display_created, m_fullscreen_mode,
                 m_fullscreen_target_mode, m_last_fullscreen_mode, m_fullscreen_screen,
                 m_fullscreen_target_screen, m_last_windowed, m_minimized,
                 m_last_video_mode, monitor_vmode, flushed, updated, applied,
                 roundtrip, last_call, shot_pc, shot_width, shot_height, buffer,
                 shot_h, read_back, png, renderer, last_entry, g_key_status,
                 g_buffered_key_status, input_mode, input_mode_index, input_mode_pad,
                 gamepad_idx, key_fault, key_call, press, last_map, mapped_button>>

GraphicsNext ==
  \/ \E pipeline \in Pipelines : SetRenderer(pipeline)
  \/ \E fn \in EntryFunctions, parity \in 0..1 : CallGraphics(fn, parity)
  \/ \E fn \in EntryFunctions, parity \in 0..1 : CallGl(fn, parity)
  \/ \E outcome \in MakeOutcomes, survive \in BOOLEAN : InitMainDisplay(outcome, survive)
  \/ \E window \in BOOLEAN : AddDisplay(window)
  \/ \E survive \in BOOLEAN : KillMainDisplay(survive)
  \/ \E display \in Displays : KillListedDisplay(display)
  \/ \E survive \in BOOLEAN : GraphicsExit(survive)

GraphicsSpec == Init /\ [][GraphicsNext]_vars

\* C35: a Graphics:: or gl_ entry call made while g_graphics_data is null, and
\* a Graphics:: entry call made while no renderer is selected, returns 0 and
\* never goes on to lock a mutex, wait, or touch the frame slot.
EntryCallsGuarded ==
  (last_entry.fn # "none" /\ (~last_entry.had_data \/ (last_entry.layer = "Graphics" /\ ~last_entry.had_renderer)))
    => (last_entry.ret = 0 /\ ~last_entry.entered)

\* C35: Graphics::vsync has returned 0 at once with a renderer selected and no
\* graphics data yet.
VsyncBeforeGraphicsDataReached ==
  /\ last_entry.fn = "vsync"
  /\ last_entry.layer = "Graphics"
  /\ last_entry.had_renderer
  /\ ~last_entry.had_data
  /\ last_entry.ret = 0
  /\ ~last_entry.entered
\* C36: Display::KillMainDisplay, and so Graphics::Exit, never dereferences a
\* null display: when there is no active main display the call goes through
\* no null pointer.
KillMainSafeWithoutMainDisplay == deref_null # "display"

WriteKeyStatus(st, i, v, adjacent) ==
  IF i \in Keys THEN [st EXCEPT !.raw[i] = v]
  ELSE IF adjacent /\ (i - NUM_KEYS) \in Keys THEN [st EXCEPT !.buffered[i - NUM_KEYS] = v]
  ELSE st

\* g_buffered_key_status[i] = v.  An index below the start of the array lands
\* in g_key_status when the two arrays are adjacent in memory, and otherwise
\* (or past the end) outside both arrays.
WriteBufferedKeyStatus(st, i, v, adjacent) ==
  IF i \in Keys THEN [st EXCEPT !.buffered[i] = v]
  ELSE IF adjacent /\ (i + NUM_KEYS) \in Keys THEN [st EXCEPT !.raw[i + NUM_KEYS] = v]
  ELSE st

\* The two key status arrays as one value.
KeyStatus == [raw |-> g_key_status, buffered |-> g_buffered_key_status]

\* CheckPadIdx
CheckPadIdx(pad) == IF pad < 0 \/ pad >= CONTROLLER_COUNT THEN -1 ELSE pad

\* Variant of MapButton: the button after the given one is mapped.
MapButtonNext(button, pad, key) ==
  IF CheckPadIdx(pad) = -1 THEN <<>>
  ELSE IF gamepad_idx[pad] = -1 THEN <<[cell |-> Cell("Keyboard", pad, button + 1), key |-> key]>>
  ELSE <<[cell |-> Cell("Controller", pad, button + 1), key |-> key]>>

\* MapButton(mapping, button, pad, key): the cells written, with the key.
MapButton(button, pad, key) ==
  IF CheckPadIdx(pad) = -1 THEN <<>>
  ELSE IF gamepad_idx[pad] = -1 THEN <<[cell |-> Cell("Keyboard", pad, button), key |-> key]>>
  ELSE <<[cell |-> Cell("Controller", pad, button), key |-> key]>>

\* ExitInputMode(canceled): the new input_mode.
ExitInputMode(canceled) == IF canceled THEN "Canceled" ELSE "Disabled"

\* EnterInputMode
EnterInputMode ==
  /\ key_fault = "none"
  /\ input_mode' = "Enabled"
  /\ input_mode_index' = 0
  /\ input_mode_pad' = 0
  /\ key_call' = "other"
  /\ press' = NoPress
  /\ last_map' = <<>>
  /\ UNCHANGED <<sync_mutex, dma_mutex, frame_idx, frame_idx_of_input_data,
                 has_data_to_render, last_input_data, last_input_offset, MasterExit,
                 window_should_close, rpc, got_chain, spc, arg_data, arg_offset,
                 init_frame, sim_ret, slot_read, consumed, presented, found_pending,
                 cleared_since, synced, m_fbo_state, settings, assert_failed,
                 setup_log, display_created, m_fullscreen_mode,
                 m_fullscreen_target_mode, m_last_fullscreen_mode, m_fullscreen_screen,
                 m_fullscreen_target_screen, m_last_windowed, m_minimized,
                 m_last_video_mode, monitor_vmode, flushed, updated, applied,
                 roundtrip, last_call, shot_pc, shot_width, shot_height, buffer,
                 shot_h, read_back, png, renderer, graphics_data, gl_inited,
                 g_displays, has_window, m_main, fault, deref_null, last_entry,
                 g_key_status, g_buffered_key_status, gamepad_idx, key_fault,
                 mapped_button>>

\* input_mode_pad_set(idx)
input_mode_pad_set(idx) ==
  /\ key_fault = "none"
  /\ input_mode_pad' = idx
  /\ key_call' = "other"
  /\ press' = NoPress
  /\ last_map' = <<>>
  /\ UNCHANGED <<sync_mutex, dma_mutex, frame_idx, frame_idx_of_input_data,
                 has_data_to_render, last_input_data, last_input_offset, MasterExit,
                 window_should_close, rpc, got_chain, spc, arg_data, arg_offset,
                 init_frame, sim_ret, slot_read, consumed, presented, found_pending,
                 cleared_since, synced, m_fbo_state, settings, assert_failed,
                 setup_log, display_created, m_fullscreen_mode,
                 m_fullscreen_target_mode, m_last_fullscreen_mode, m_fullscreen_screen,
                 m_fullscreen_target_screen, m_last_windowed, m_minimized,
                 m_last_video_mode, monitor_vmode, flushed, updated, applied,
                 roundtrip, last_call, shot_pc, shot_width, shot_height, buffer,
                 shot_h, read_back, png, renderer, graphics_data, gl_inited,
                 g_displays, has_window, m_main, fault, deref_null, last_entry,
                 g_key_status, g_buffered_key_status, input_mode, input_mode_index,
                 gamepad_idx, key_fault, mapped_button>>

\* SetGamepadState(pad, pad_index)
SetGamepadState(pad, pad_index) ==
  /\ key_fault = "none"
  /\ gamepad_idx' = IF CheckPadIdx(pad) # -1 THEN [gamepad_idx EXCEPT ![pad] = pad_index] ELSE gamepad_idx
  /\ key_call' = "other"
  /\ press' = NoPress
  /\ last_map' = <<>>
  /\ UNCHANGED <<sync_mutex, dma_mutex, frame_idx, frame_idx_of_input_data,
                 has_data_to_render, last_input_data, last_input_offset, MasterExit,
                 window_should_close, rpc, got_chain, spc, arg_data, arg_offset,
                 init_frame, sim_ret, slot_read, consumed, presented, found_pending,
                 cleared_since, synced, m_fbo_state, settings, assert_failed,
                 setup_log, display_created, m_fullscreen_mode,
                 m_fullscreen_target_mode, m_last_fullscreen_mode, m_fullscreen_screen,
                 m_fullscreen_target_screen, m_last_windowed, m_minimized,
                 m_last_video_mode, monitor_vmode, flushed, updated, applied,
                 roundtrip, last_call, shot_pc, shot_width, shot_height, buffer,
                 shot_h, read_back, png, renderer, graphics_data, gl_inited,
                 g_displays, has_window, m_main, fault, deref_null, last_entry,
                 g_key_status, g_buffered_key_status, input_mode, input_mode_index,
                 input_mode_pad, key_fault, mapped_button>>

\* OnKeyPress(key); imgui is ImGui::IsAnyItemActive().  The key kept in
\* input_mode_key (read by input_mode_get_key only) is recorded in last_map.
OnKeyPress(key, imgui, adjacent) ==
  /\ key_fault = "none"
  /\ key_call' = "OnKeyPress"
  /\ press' = [key |-> key, imgui |-> imgui]
  /\ IF imgui
       THEN /\ last_map' = <<>>
            /\ UNCHANGED <<g_key_status, g_buffered_key_status, input_mode, input_mode_index, key_fault>>
     ELSE IF input_mode = "Enabled"
       THEN IF key = KeyEscape
              THEN /\ input_mode' = ExitInputMode(TRUE)
                   /\ last_map' = <<>>
                   /\ UNCHANGED <<g_key_status, g_buffered_key_status, input_mode_index, key_fault>>
              ELSE /\ last_map' = MapButton(input_mode_index, input_mode_pad, key)
                   /\ input_mode_index' = input_mode_index + 1
                   /\ input_mode' = IF input_mode_index + 1 >= ButtonMax THEN ExitInputMode(FALSE) ELSE input_mode
                   /\ UNCHANGED <<g_key_status, g_buffered_key_status, key_fault>>
     ELSE IF ~(key < NUM_KEYS)
       THEN /\ key_fault' = "assert"
            /\ last_map' = <<>>
            /\ UNCHANGED <<g_key_status, g_buffered_key_status, input_mode, input_mode_index>>
     ELSE LET st == WriteBufferedKeyStatus(WriteKeyStatus(KeyStatus, key, TRUE, adjacent), key, TRUE, adjacent)
          IN /\ g_key_status' = st.raw
             /\ g_buffered_key_status' = st.buffered
             /\ last_map' = <<>>
             /\ UNCHANGED <<input_mode, input_mode_index, key_fault>>
  /\ UNCHANGED <<sync_mutex, dma_mutex, frame_idx, frame_idx_of_input_data,
                 has_data_to_render, last_input_data, last_input_offset, MasterExit,
                 window_should_close, rpc, got_chain, spc, arg_data, arg_offset,
                 init_frame, sim_ret, slot_read, consumed, presented, found_pending,
                 cleared_since, synced, m_fbo_state, settings, assert_failed,
                 setup_log, display_created, m_fullscreen_mode,
                 m_fullscreen_target_mode, m_last_fullscreen_mode, m_fullscreen_screen,
                 m_fullscreen_target_screen, m_last_windowed, m_minimized,
                 m_last_video_mode, monitor_vmode, flushed, updated, applied,
                 roundtrip, last_call, shot_pc, shot_width, shot_height, buffer,
                 shot_h, read_back, png, renderer, graphics_data, gl_inited,
                 g_displays, has_window, m_main, fault, deref_null, last_entry,
                 input_mode_pad, gamepad_idx, mapped_button>>

\* OnKeyRelease(key)
OnKeyRelease(key, adjacent) ==
  /\ key_fault = "none"
  /\ key_call' = "OnKeyRelease"
  /\ press' = NoPress
  /\ last_map' = <<>>
  /\ IF input_mode = "Enabled"
       THEN UNCHANGED <<g_key_status, g_buffered_key_status, key_fault>>
     ELSE IF ~(key < NUM_KEYS)
       THEN /\ key_fault' = "assert"
            /\ UNCHANGED <<g_key_status, g_buffered_key_status>>
     ELSE LET st == WriteKeyStatus(KeyStatus, key, FALSE, adjacent)
          IN /\ g_key_status' = st.raw
             /\ g_buffered_key_status' = st.buffered
             /\ UNCHANGED key_fault
  /\ UNCHANGED <<sync_mutex, dma_mutex, frame_idx, frame_idx_of_input_data,
                 has_data_to_render, last_input_data, last_input_offset, MasterExit,
                 window_should_close, rpc, got_chain, spc, arg_data, arg_offset,
                 init_frame, sim_ret, slot_read, consumed, presented, found_pending,
                 cleared_since, synced, m_fbo_state, settings, assert_failed,
                 setup_log, display_created, m_fullscreen_mode,
                 m_fullscreen_target_mode, m_last_fullscreen_mode, m_fullscreen_screen,
                 m_fullscreen_target_screen, m_last_windowed, m_minimized,
                 m_last_video_mode, monitor_vmode, flushed, updated, applied,
                 roundtrip, last_call, shot_pc, shot_width, shot_height, buffer,
                 shot_h, read_back, png, renderer, graphics_data, gl_inited,
                 g_displays, has_window, m_main, fault, deref_null, last_entry,
                 input_mode, input_mode_index, input_mode_pad, gamepad_idx,
                 mapped_button>>

\* ClearKey(key)
ClearKey(key, adjacent) ==
  /\ key_fault = "none"
  /\ key_call' = "ClearKey"
  /\ press' = NoPress
  /\ last_map' = <<>>
  /\ IF key < 0 \/ key > NUM_KEYS
       THEN UNCHANGED <<g_key_status, g_buffered_key_status>>
     ELSE LET st == WriteBufferedKeyStatus(WriteKeyStatus(KeyStatus, key, FALSE, adjacent), key, FALSE, adjacent)
          IN /\ g_key_status' = st.raw
             /\ g_buffered_key_status' = st.buffered
  /\ UNCHANGED <<sync_mutex, dma_mutex, frame_idx, frame_idx_of_input_data,
                 has_data_to_render, last_input_data, last_input_offset, MasterExit,
                 window_should_close, rpc, got_chain, spc, arg_data, arg_offset,
                 init_frame, sim_ret, slot_read, consumed, presented, found_pending,
                 cleared_since, synced, m_fbo_state, settings, assert_failed,
                 setup_log, display_created, m_fullscreen_mode,
                 m_fullscreen_target_mode, m_last_fullscreen_mode, m_fullscreen_screen,
                 m_fullscreen_target_screen, m_last_windowed, m_minimized,
                 m_last_video_mode, monitor_vmode, flushed, updated, applied,
                 roundtrip, last_call, shot_pc, shot_width, shot_height, buffer,
                 shot_h, read_back, png, renderer, graphics_data, gl_inited,
                 g_displays, has_window, m_main, fault, deref_null, last_entry,
                 input_mode, input_mode_index, input_mode_pad, gamepad_idx, key_fault,
                 mapped_button>>

\* ClearKeys
ClearKeys ==
  /\ key_fault = "none"
  /\ key_call' = "ClearKeys"
  /\ press' = NoPress
  /\ last_map' = <<>>
  /\ g_buffered_key_status' = [key \in Keys |-> g_key_status[key]]
  /\ UNCHANGED <<sync_mutex, dma_mutex, frame_idx, frame_idx_of_input_data,
                 has_data_to_render, last_input_data, last_input_offset, MasterExit,
                 window_should_close, rpc, got_chain, spc, arg_data, arg_offset,
                 init_frame, sim_ret, slot_read, consumed, presented, found_pending,
                 cleared_since, synced, m_fbo_state, settings, assert_failed,
                 setup_log, display_created, m_fullscreen_mode,
                 m_fullscreen_target_mode, m_last_fullscreen_mode, m_fullscreen_screen,
                 m_fullscreen_target_screen, m_last_windowed, m_minimized,
                 m_last_video_mode, monitor_vmode, flushed, updated, applied,
                 roundtrip, last_call, shot_pc, shot_width, shot_height, buffer,
                 shot_h, read_back, png, renderer, graphics_data, gl_inited,
                 g_displays, has_window, m_main, fault, deref_null, last_entry,
                 g_key_status, input_mode, input_mode_index, input_mode_pad,
                 gamepad_idx, key_fault, mapped_button>>

\* ForceClearKeys
ForceClearKeys ==
  /\ key_fault = "none"
  /\ key_call' = "ForceClearKeys"
  /\ press' = NoPress
  /\ last_map' = <<>>
  /\ g_key_status' = [key \in Keys |-> FALSE]
  /\ g_buffered_key_status' = [key \in Keys |-> FALSE]
  /\ UNCHANGED <<sync_mutex, dma_mutex, frame_idx, frame_idx_of_input_data,
                 has_data_to_render, last_input_data, last_input_offset, MasterExit,
                 window_should_close, rpc, got_chain, spc, arg_data, arg_offset,
                 init_frame, sim_ret, slot_read, consumed, presented, found_pending,
                 cleared_since, synced, m_fbo_state, settings, assert_failed,
                 setup_log, display_created, m_fullscreen_mode,
                 m_fullscreen_target_mode, m_last_fullscreen_mode, m_fullscreen_screen,
                 m_fullscreen_target_screen, m_last_windowed, m_minimized,
                 m_last_video_mode, monitor_vmode, flushed, updated, applied,
                 roundtrip, last_call, shot_pc, shot_width, shot_height, buffer,
                 shot_h, read_back, png, renderer, graphics_data, gl_inited,
                 g_displays, has_window, m_main, fault, deref_null, last_entry,
                 input_mode, input_mode_index, input_mode_pad, gamepad_idx, key_fault,
                 mapped_button>>

InputNext ==
  \/ EnterInputMode
  \/ \E idx \in {0, CONTROLLER_COUNT} : input_mode_pad_set(idx)
  \/ \E pad \in {0, CONTROLLER_COUNT}, pad_index \in -1..0 : SetGamepadState(pad, pad_index)
  \/ \E key \in KeyInputs, imgui \in BOOLEAN : \E adjacent \in Layouts(key) : OnKeyPress(key, imgui, adjacent)
  \/ \E key \in KeyInputs : \E adjacent \in Layouts(key) : OnKeyRelease(key, adjacent)
  \/ \E key \in KeyInputs : \E adjacent \in Layouts(key) : ClearKey(key, adjacent)
  \/ ClearKeys
  \/ ForceClearKeys

InputSpec == Init /\ [][InputNext]_vars

\* GetGamepadState(pad): g_gamepads.gamepad_idx[pad]; a pad past the end of the
\* array reads whatever follows it.
GetGamepadState(pad, garbage) == IF pad \in Pads THEN gamepad_idx[pad] ELSE garbage

\* Graphics::get_mapped_button(pad, button): the value returned (-1, or the
\* content of a mapping table cell, shown as the cell) and the cells read.
get_mapped_button(pad, button, garbage) ==
  IF pad < 0 \/ pad > CONTROLLER_COUNT \/ button < 0 \/ button > 16
    THEN [ret |-> InvalidParameters, reads |-> {}]
  ELSE LET cell == IF GetGamepadState(pad, garbage) > -1 THEN Cell("Controller", pad, button) ELSE Cell("Keyboard", pad, button)
       IN [ret |-> cell, reads |-> {cell}]

\* A call of Graphics::get_mapped_button.
GetMappedButton(pad, button, garbage) ==
  /\ LET r == get_mapped_button(pad, button, garbage)
     IN mapped_button' = [called |-> TRUE, pad |-> pad, button |-> button, bound |-> (pad \in Pads /\ gamepad_idx[pad] > -1), ret |-> r.ret, reads |-> r.reads]
  /\ UNCHANGED <<sync_mutex, dma_mutex, frame_idx, frame_idx_of_input_data,
                 has_data_to_render, last_input_data, last_input_offset, MasterExit,
                 window_should_close, rpc, got_chain, spc, arg_data, arg_offset,
                 init_frame, sim_ret, slot_read, consumed, presented, found_pending,
                 cleared_since, synced, m_fbo_state, settings, assert_failed,
                 setup_log, display_created, m_fullscreen_mode,
                 m_fullscreen_target_mode, m_last_fullscreen_mode, m_fullscreen_screen,
                 m_fullscreen_target_screen, m_last_windowed, m_minimized,
                 m_last_video_mode, monitor_vmode, flushed, updated, applied,
                 roundtrip, last_call, shot_pc, shot_width, shot_height, buffer,
                 shot_h, read_back, png, renderer, graphics_data, gl_inited,
                 g_displays, has_window, m_main, fault, deref_null, last_entry,
                 g_key_status, g_buffered_key_status, input_mode, input_mode_index,
                 input_mode_pad, gamepad_idx, key_fault, key_call, press, last_map>>

MappingNext ==
  \/ \E pad \in 0..CONTROLLER_COUNT, pad_index \in -1..0 : SetGamepadState(pad, pad_index)
  \/ \E pad \in -1..(CONTROLLER_COUNT + 1), button \in -1..(ButtonMax + 1), garbage \in -1..0 : GetMappedButton(pad, button, garbage)

MappingSpec == Init /\ [][MappingNext]_vars

\* C38: get_mapped_button returns -1 and reads no mapping table for a pad
\* outside [0, CONTROLLER_COUNT) or a button outside [0, Button::Max); for
\* arguments in range it returns the controller mapping of the pad and button
\* when a gamepad is bound to the pad and the keyboard mapping otherwise.
MappedButtonRangeChecked ==
  mapped_button.called =>
    IF mapped_button.pad \in Pads /\ mapped_button.button \in Buttons
      THEN mapped_button.ret = Cell(IF mapped_button.bound THEN "Controller" ELSE "Keyboard", mapped_button.pad, mapped_button.button)
      ELSE mapped_button.ret = InvalidParameters /\ mapped_button.reads = {}
\* A step that lowers the buffered status of a key is a ClearKeys, ClearKey or
\* ForceClearKeys call.
BufferedLoweredByClearOnly ==
  (\E k \in Keys : g_buffered_key_status[k] /\ ~g_buffered_key_status'[k]) => (key_call' \in {"ClearKeys", "ClearKey", "ForceClearKeys"})

\* C39: after every sequence of OnKeyPress, OnKeyRelease, ClearKeys, ClearKey
\* and ForceClearKeys calls, in or out of input-mapping mode, every key whose
\* raw status is set has its buffered status set; and the buffered status of a
\* key is lowered only by ClearKeys, ClearKey or ForceClearKeys.
BufferedDominatesRaw ==
  /\ [](\A k \in Keys : g_key_status[k] => g_buffered_key_status[k])
  /\ [][BufferedLoweredByClearOnly]_vars
\* The step is an OnKeyPress call made in input-mapping mode.
PressWhileEnabled == key_call' = "OnKeyPress" /\ input_mode = "Enabled"

\* The step maps exactly the button at input_mode_index to the pressed key.
MapsIndexedButton ==
  /\ Len(last_map') = 1
  /\ last_map'[1].cell.button = input_mode_index
  /\ last_map'[1].cell.pad = input_mode_pad
  /\ last_map'[1].key = press'.key

\* Every non-Escape press in input-mapping mode maps the button at
\* input_mode_index, increments the index and changes no key status.
EveryPressMaps ==
  (PressWhileEnabled /\ press'.key # KeyEscape) => (MapsIndexedButton /\ input_mode_index' = input_mode_index + 1 /\ UNCHANGED <<g_key_status, g_buffered_key_status>>)

\* Every Escape press in input-mapping mode cancels the mode and maps nothing.
EveryEscapeCancels ==
  (PressWhileEnabled /\ press'.key = KeyEscape) => (input_mode' = "Canceled" /\ last_map' = <<>> /\ UNCHANGED input_mode_index)

\* The mode goes from Enabled to Disabled exactly with the mapping of the last
\* button.
DisabledAfterLastMapping ==
  (input_mode = "Enabled") => ((input_mode' = "Disabled") <=> (Len(last_map') = 1 /\ input_mode_index' = ButtonMax))

\* In input-mapping mode the index is a button, and no button outside
\* [0, Button::Max) is given to MapButton.
IndexInRange ==
  /\ input_mode = "Enabled" => input_mode_index \in Buttons
  /\ \A i \in 1..Len(last_map) : last_map[i].cell.button \in Buttons

\* C40: in input-mapping mode every non-Escape OnKeyPress maps exactly the
\* button at input_mode_index, increments the index and changes no key status;
\* the mode becomes Disabled exactly with the 16th mapping and Canceled, with
\* nothing mapped, on an Escape press; while the mode is Enabled the index is
\* below Button::Max and MapButton gets no button out of range.
InputModeMachine ==
  /\ [][EveryPressMaps]_vars
  /\ [][EveryEscapeCancels]_vars
  /\ [][DisabledAfterLastMapping]_vars
  /\ []IndexInRange

\* A non-Escape press in input-mapping mode that ImGui does not take
\* increments the index and changes no key status; it maps the button at
\* input_mode_index if input_mode_pad is a pad, and nothing otherwise.  A
\* press that ImGui takes changes nothing.
HandledPressMaps ==
  (PressWhileEnabled /\ press'.key # KeyEscape) =>
    IF press'.imgui
      THEN last_map' = <<>> /\ UNCHANGED <<input_mode, input_mode_index, g_key_status, g_buffered_key_status>>
      ELSE /\ input_mode_index' = input_mode_index + 1
           /\ UNCHANGED <<g_key_status, g_buffered_key_status>>
           /\ IF CheckPadIdx(input_mode_pad) # -1 THEN MapsIndexedButton ELSE last_map' = <<>>

\* An Escape press in input-mapping mode that ImGui does not take cancels the
\* mode and maps nothing; one that ImGui takes changes nothing.
HandledEscapeCancels ==
  (PressWhileEnabled /\ press'.key = KeyEscape) =>
    (last_map' = <<>> /\ UNCHANGED input_mode_index /\ input_mode' = (IF press'.imgui THEN "Enabled" ELSE "Canceled"))

\* The mode goes from Enabled to Disabled exactly with the press that takes the
\* index to Button::Max, and leaves Enabled in an OnKeyPress call only.
DisabledAfterLastPress ==
  (input_mode = "Enabled") =>
    /\ (input_mode' = "Disabled") <=> (input_mode_index' = ButtonMax)
    /\ (input_mode' # "Enabled") => (key_call' = "OnKeyPress" /\ ~press'.imgui)

\* C40 (amended): in input-mapping mode every non-Escape OnKeyPress that
\* ImGui does not take increments input_mode_index and changes no key status,
\* and maps exactly the button at the old index when input_mode_pad is a
\* valid pad (nothing otherwise); the mode becomes Disabled exactly with the
\* 16th such press and Canceled, with nothing mapped, on an Escape press that
\* ImGui does not take; while the mode is Enabled the index is below
\* Button::Max and MapButton gets no button out of range.
InputModeMachineHandled ==
  /\ [][HandledPressMaps]_vars
  /\ [][HandledEscapeCancels]_vars
  /\ [][DisabledAfterLastPress]_vars
  /\ []IndexInRange

\* C40: the 16th press of a mapping session has just mapped the last button
\* and the mode has gone to Disabled.
LastButtonMappedReached ==
  /\ key_call = "OnKeyPress"
  /\ input_mode = "Disabled"
  /\ input_mode_index = ButtonMax
  /\ Len(last_map) = 1
  /\ last_map[1].cell.button = ButtonMax - 1
====
